---- MODULE Spec2Model ----
(***************************************************************************)
(* A model of go-varlink: the client call multiplexer (client.go) and the  *)
(* server per-connection call state machine (server.go).                   *)
(*                                                                         *)
(* SpecClient: callers running Client.Do / Client.DoMore concurrently on   *)
(* one connection, the background Client.readLoop, Client.Close, and the   *)
(* peer at the other end of the connection.                                *)
(* SpecServer: Server.serveConn on one connection with a Handler that may  *)
(* call ServerCall.Reply / CloseWithReply in any order and return any      *)
(* value.                                                                  *)
(* SpecOneway: SpecClient's callers together with a oneway submission.     *)
(* SpecStream: callers, read loop and a peer that streams many replies to  *)
(* a caller that may stop receiving them.                                  *)
(* SpecCodec: conn.writeMessage and conn.readMessage (varlink.go) over one *)
(* direction of a connection.                                              *)
(* SpecRead: varlinkdef.Read on interface definition texts.                *)
(* SpecServe: Server.Serve accepting connections and one serveConn        *)
(* goroutine per connection, with handlers that may block forever.         *)
(* SpecLive: callers, read loop and a peer that keeps to the protocol on a *)
(* connection that does not fail, every started step eventually taken.     *)
(***************************************************************************)
EXTENDS Integers, Sequences, FiniteSets, TLC

(* ------------------------------ bounds --------------------------------- *)
\* number of caller goroutines, each issuing one Do or DoMore
NumCalls == 2
\* the most non-terminal replies the peer sends for one request
MaxStream == 2
\* how many times the holder of a ClientCall invokes Next
MaxNext == 4
\* the most replies carrying an error name the peer sends on the connection
MaxErrs == 1
\* number of requests the server connection reads
MaxReqs == 2
\* number of Reply/CloseWithReply invocations of the handler per call
MaxOps == 3
\* codec: writeMessage calls, tokens written by a foreign peer, readMessage
\* calls
MaxMsgs == 2
MaxRaw == 2
MaxReads == 3
\* parser: elements in the list of a type member, characters cut off a text
\* the most marks ("?", "[]", "[string]") in front of a written type
MaxMarks == 2
MaxElems == 2
MaxDrop == 80
\* the most non-terminal replies the peer streams to a caller that may have
\* stopped consuming them
MaxFlood == 34
MaxInFlight == 2
\* the connections made to the listener, and the requests sent on each
NumConns == 2
MaxConnReqs == 2

(* -------------------------- program constants -------------------------- *)
\* capacity of a pending call's delivery channel: make(chan clientReply, 32)
ChanCap == 32

Calls == 1..NumCalls

\* reply.Error values: "" is success, the other an RPC error name
ErrNames == {"", "x.Failed"}

VARIABLES
  \* ---- Client ----
  mutex,       \* c.mutex: 0 when free, else the caller holding it
  pending,     \* c.pending: FIFO of delivery channels (named by their call)
  cerr,        \* c.err
  connClosed,  \* c.conn has been closed locally
  wbuf,        \* c.brw write buffer: tokens not yet flushed
  wire,        \* tokens written to the connection, client to peer
  wireIn,      \* replies in flight, peer to client
  chans,       \* per call: the channel made by Client.do
  cpc,         \* per caller: position in Do / DoMore
  cmore,       \* per caller: clientRequest.More
  chnil,       \* per caller: ClientCall.ch == nil
  results,     \* per caller: what Do / successive Next calls returned
  rpc,         \* readLoop position
  rreply,      \* readLoop local: reply
  rch,         \* readLoop local: ch (0 is nil)
  rerr,        \* readLoop local: err
  lastDeliv,   \* the last ch <- reply executed by readLoop
  pIdx,        \* peer: number of requests it has answered terminally
  pSeq,        \* peer: replies already sent for the request being answered
  pErrs,       \* peer: number of error replies it has sent
  peerOK,      \* peer has so far answered in order, as the protocol demands
  \* ---- Client: the caller of the oneway submission ----
  owpc,        \* its position in the oneway submission
  owres,       \* what the oneway submission returned
  \* ---- conn: the codec over one direction of a connection ----
  cnet,        \* bytes written to the connection and not yet read from it
  cclosed,     \* the writing end has closed the connection
  csent,       \* the values writeMessage has written, in order
  craw,        \* number of bytes a foreign peer wrote to the connection
  dbuf,        \* c.dec: the buffered bytes not yet scanned, buf[scanp:]
  derr,        \* c.dec: the decoder's sticky error
  rdpc,        \* position in readMessage
  rdv,         \* readMessage: what v holds
  rdres,       \* what the readMessage calls returned, with v at return
  \* ---- varlinkdef.Read ----
  pin,         \* the declarations the text was printed from
  psrc,        \* the text behind the io.Reader r
  pout,        \* what Read returned (<<>>: not called yet)
  pout2,       \* what a second Read of the same text returned
  \* ---- Server ----
  spc,         \* serveConn position: "read", "handle" or "closed"
  reqs,        \* the requests read so far; the last one is the local req
  done,        \* call.done of the current call
  sOut,        \* replies written to the connection by the server
  sbroken,     \* the connection's bufio.Writer carries a sticky write error
  sRet,        \* what serveConn returned
  opLog,       \* Reply/CloseWithReply invocations of the current handler
               \* run, each with the error it returned to the handler
  hret,        \* what the handler returned last
  \* ---- Server.Serve ----
  lpc,         \* Serve position: "accept" or "returned"
  dialed,      \* how many clients have connected to the listener
  accepted,    \* how many connections ln.Accept has returned
  connpc,      \* per connection, the position of its serveConn goroutine:
               \* "none" (not started), "read", "handle", "blocked", "closed"
  nsent,       \* per connection, the requests its client has sent
  nread,       \* per connection, the requests serveConn has read
  nansw,       \* per connection, the replies written
  hung         \* per connection, the client has closed it

clientVars == <<mutex, pending, cerr, connClosed, wbuf, wire, wireIn, chans,
                cpc, cmore, chnil, results, rpc, rreply, rch, rerr,
                lastDeliv, pIdx, pSeq, pErrs, peerOK>>
serverVars == <<spc, reqs, done, sOut, sbroken, sRet, opLog, hret>>
onewayVars == <<owpc, owres>>
codecVars == <<cnet, cclosed, csent, craw, dbuf, derr, rdpc, rdv, rdres>>
readVars == <<pin, psrc, pout, pout2>>
serveVars == <<lpc, dialed, accepted, connpc, nsent, nread, nansw, hung>>
vars == <<clientVars, serverVars, onewayVars, codecVars, readVars, serveVars>>

(* ------------------------------ helpers -------------------------------- *)
Last(s) == s[Len(s)]

IsPrefix(s, t) ==
  /\ Len(s) <= Len(t)
  /\ \A i \in 1..Len(s) : s[i] = t[i]

\* a frame is the encoded value followed by one zero byte
JsonTok(c) == <<"json", c>>
NulTok == <<"nul">>

NoReply == [for |-> 0, seq |-> 0, continues |-> FALSE, error |-> ""]
NoDeliv == [ch |-> 0, continues |-> FALSE]

\* the calls whose encoded request appears in a token stream, in order
RECURSIVE StreamIds(_)
StreamIds(s) ==
  IF s = <<>> THEN <<>>
  ELSE IF Head(s)[1] = "json" THEN <<Head(s)[2]>> \o StreamIds(Tail(s))
  ELSE StreamIds(Tail(s))

\* the complete frames the peer can decode from the stream, in order
RECURSIVE Frames(_)
Frames(s) ==
  IF Len(s) < 2 THEN <<>>
  ELSE IF Head(s)[1] = "json" /\ s[2] = NulTok
       THEN <<Head(s)[2]>> \o Frames(Tail(Tail(s)))
       ELSE Frames(Tail(s))

(* --------------------------- Client: state ----------------------------- *)
InitClient ==
  /\ mutex = 0
  /\ pending = <<>>
  /\ cerr = "nil"
  /\ connClosed = FALSE
  /\ wbuf = <<>>
  /\ wire = <<>>
  /\ wireIn = <<>>
  /\ chans = [c \in Calls |-> [buf |-> <<>>, closed |-> FALSE]]
  /\ cpc = [c \in Calls |-> "start"]
  /\ cmore = [c \in Calls |-> FALSE]
  /\ chnil = [c \in Calls |-> FALSE]
  /\ results = [c \in Calls |-> <<>>]
  /\ rpc = "read"
  /\ rreply = NoReply
  /\ rch = 0
  /\ rerr = "nil"
  /\ lastDeliv = NoDeliv
  /\ pIdx = 0
  /\ pSeq = 0
  /\ pErrs = 0
  /\ peerOK = TRUE

CanLockAlways(m) == TRUE

\* sync.Mutex: Lock succeeds only when nobody holds the mutex
CanLock(m) == m = 0

Result(kind, reply, err) ==
  [kind |-> kind, for |-> reply.for, seq |-> reply.seq,
   continues |-> reply.continues, err |-> err]

Returned(c, r) == results' = [results EXCEPT ![c] = Append(@, r)]

(* ---------------------- Client.writeRequest ---------------------------- *)
HasStoredErrorNever(err) == FALSE

\* if c.err != nil { return c.err }
HasStoredError(err) == err # "nil"

EnqueueTwice(q, ch) == Append(Append(q, ch), ch)

\* c.pending = append(c.pending, ch)
Enqueue(q, ch) == Append(q, ch)

\* Do / DoMore build the request and do() makes the channel; writeRequest
\* takes the mutex, returns the stored error if there is one, and otherwise
\* appends the channel: c.pending = append(c.pending, ch)
WriteRequestLock(c, more) ==
  /\ cpc[c] = "start"
  /\ CanLock(mutex)
  /\ cmore' = [cmore EXCEPT ![c] = more]
  /\ IF HasStoredError(cerr)
     THEN /\ Returned(c, Result("submit", NoReply, cerr))
          /\ cpc' = [cpc EXCEPT ![c] = "done"]
          /\ UNCHANGED <<mutex, pending>>
     ELSE /\ mutex' = c
          /\ pending' = Enqueue(pending, c)
          /\ cpc' = [cpc EXCEPT ![c] = "encode"]
          /\ UNCHANGED results
  /\ UNCHANGED <<cerr, connClosed, wbuf, wire, wireIn, chans, chnil, rpc,
                 rreply, rch, rerr, lastDeliv, pIdx, pSeq, pErrs, peerOK>>
  /\ UNCHANGED <<serverVars, onewayVars, codecVars, readVars, serveVars>>

\* writeMessageLocked: c.enc.Encode(v) writes the value into c.brw
WriteMessageEncode(c) ==
  /\ cpc[c] = "encode"
  /\ wbuf' = Append(wbuf, JsonTok(c))
  /\ cpc' = [cpc EXCEPT ![c] = "flush"]
  /\ UNCHANGED <<mutex, pending, cerr, connClosed, wire, wireIn, chans, cmore,
                 chnil, results, rpc, rreply, rch, rerr, lastDeliv, pIdx,
                 pSeq, pErrs, peerOK>>
  /\ UNCHANGED <<serverVars, onewayVars, codecVars, readVars, serveVars>>

\* the mutex is released by the deferred Unlock
Unlock(m, c) == IF m = c THEN 0 ELSE m

\* writeMessageLocked: c.brw.Write([]byte{0}) and c.brw.Flush() succeed,
\* writeRequest returns nil; Do goes on to cc.next, DoMore hands the
\* ClientCall to its caller
WriteMessageFlush(c) ==
  /\ cpc[c] = "flush"
  /\ ~connClosed
  /\ wire' = wire \o Append(wbuf, NulTok)
  /\ wbuf' = <<>>
  /\ mutex' = Unlock(mutex, c)
  /\ cpc' = [cpc EXCEPT ![c] = IF cmore[c] THEN "handle" ELSE "wait"]
  /\ UNCHANGED <<pending, cerr, connClosed, wireIn, chans, cmore, chnil,
                 results, rpc, rreply, rch, rerr, lastDeliv, pIdx, pSeq,
                 pErrs, peerOK>>
  /\ UNCHANGED <<serverVars, onewayVars, codecVars, readVars, serveVars>>

\* writeMessageLocked fails (the connection is closed or the transport
\* breaks): c.err = err; c.conn.Close(); return err
WriteRequestFail(c) ==
  /\ cpc[c] = "flush"
  /\ cerr' = "write"
  /\ connClosed' = TRUE
  /\ mutex' = Unlock(mutex, c)
  /\ Returned(c, Result("submit", NoReply, "write"))
  /\ cpc' = [cpc EXCEPT ![c] = "done"]
  /\ UNCHANGED <<pending, wbuf, wire, wireIn, chans, cmore, chnil, rpc,
                 rreply, rch, rerr, lastDeliv, pIdx, pSeq, pErrs, peerOK>>
  /\ UNCHANGED <<serverVars, onewayVars, codecVars, readVars, serveVars>>

(* -------------------------- Client.readLoop ---------------------------- *)
\* c.readMessage(&reply) returns the next reply (possibly one buffered
\* before the connection was closed)
ReadLoopRead ==
  /\ rpc = "read"
  /\ wireIn # <<>>
  /\ rreply' = Head(wireIn)
  /\ wireIn' = Tail(wireIn)
  /\ rpc' = "route"
  /\ UNCHANGED <<mutex, pending, cerr, connClosed, wbuf, wire, chans, cpc,
                 cmore, chnil, results, rch, rerr, lastDeliv, pIdx, pSeq,
                 pErrs, peerOK>>
  /\ UNCHANGED <<serverVars, onewayVars, codecVars, readVars, serveVars>>

\* the error readLoop keeps: net.ErrClosed is turned into nil
ReadError(closed) == IF closed THEN "nil" ELSE "read"

\* c.readMessage fails: the connection was closed locally, or the
\* transport or the framing failed; break
ReadLoopReadFail ==
  /\ rpc = "read"
  /\ rerr' = ReadError(connClosed)
  /\ rpc' = "shutdown"
  /\ UNCHANGED <<mutex, pending, cerr, connClosed, wbuf, wire, wireIn, chans,
                 cpc, cmore, chnil, results, rreply, rch, lastDeliv, pIdx,
                 pSeq, pErrs, peerOK>>
  /\ UNCHANGED <<serverVars, onewayVars, codecVars, readVars, serveVars>>

PendingLast(q) == q[Len(q)]

\* ch = c.pending[0]
PendingHead(q) == q[1]

RoutePopAlways(q, continues) == Tail(q)

RoutePopNever(q, continues) == q

\* if !reply.Continues { c.pending = c.pending[1:] }
RoutePop(q, continues) == IF continues THEN q ELSE Tail(q)

\* the critical section of the loop body: pick the head of the queue
ReadLoopRoute ==
  /\ rpc = "route"
  /\ CanLock(mutex)
  /\ IF Len(pending) > 0
     THEN /\ rch' = PendingHead(pending)
          /\ pending' = RoutePop(pending, rreply.continues)
     ELSE /\ rch' = 0
          /\ UNCHANGED pending
  /\ rpc' = "send"
  /\ UNCHANGED <<mutex, cerr, connClosed, wbuf, wire, wireIn, chans, cpc,
                 cmore, chnil, results, rreply, rerr, lastDeliv, pIdx, pSeq,
                 pErrs, peerOK>>
  /\ UNCHANGED <<serverVars, onewayVars, codecVars, readVars, serveVars>>

\* ch == nil: err = "received reply without request"; break
ReadLoopNoRequest ==
  /\ rpc = "send"
  /\ rch = 0
  /\ rerr' = "noreq"
  /\ rpc' = "shutdown"
  /\ UNCHANGED <<mutex, pending, cerr, connClosed, wbuf, wire, wireIn, chans,
                 cpc, cmore, chnil, results, rreply, rch, lastDeliv, pIdx,
                 pSeq, pErrs, peerOK>>
  /\ UNCHANGED <<serverVars, onewayVars, codecVars, readVars, serveVars>>

\* a send on a buffered channel: blocks while the buffer is full
ChanSend(ch, v) == [ch EXCEPT !.buf = Append(@, v)]

CanSendAlways(ch) == TRUE

\* a send on a channel made with capacity ChanCap proceeds only while fewer
\* than ChanCap values are buffered (no receiver is waiting then)
CanSend(ch) == Len(ch.buf) < ChanCap

\* ch <- reply
ReadLoopSend ==
  /\ rpc = "send"
  /\ rch # 0
  /\ CanSend(chans[rch])
  /\ chans' = [chans EXCEPT ![rch] = ChanSend(@, rreply)]
  /\ lastDeliv' = [ch |-> rch, continues |-> rreply.continues]
  /\ rpc' = "read"
  /\ UNCHANGED <<mutex, pending, cerr, connClosed, wbuf, wire, wireIn, cpc,
                 cmore, chnil, results, rreply, rch, rerr, pIdx, pSeq,
                 pErrs, peerOK>>
  /\ UNCHANGED <<serverVars, onewayVars, codecVars, readVars, serveVars>>

StoredErrorKept(err, old) == old

\* if err != nil { c.err = err }
StoredError(err, old) == IF err # "nil" THEN err ELSE old

\* the deferred function of readLoop: store the error, close every pending
\* channel, drop the queue
ReadLoopShutdown ==
  /\ rpc = "shutdown"
  /\ CanLock(mutex)
  /\ cerr' = StoredError(rerr, cerr)
  /\ chans' = [c \in Calls |->
                 IF \E i \in 1..Len(pending) : pending[i] = c
                 THEN [chans[c] EXCEPT !.closed = TRUE]
                 ELSE chans[c]]
  /\ pending' = <<>>
  /\ rpc' = "stopped"
  /\ UNCHANGED <<mutex, connClosed, wbuf, wire, wireIn, cpc, cmore, chnil,
                 results, rreply, rch, rerr, lastDeliv, pIdx, pSeq, pErrs, peerOK>>
  /\ UNCHANGED <<serverVars, onewayVars, codecVars, readVars, serveVars>>

(* ------------------- ClientCall.next, Do, Next ------------------------- *)
\* reply, ok := <-cc.ch can proceed: a value is buffered or the channel is
\* closed
CanRecv(ch) == ch.buf # <<>> \/ ch.closed

\* the value a receive yields
ChanRecv(ch) == Head(ch.buf)

NextOutcomeNoError(ch, storedErr) ==
  IF ch.buf # <<>>
  THEN Result("reply", ChanRecv(ch), "")
  ELSE Result("closed", NoReply, storedErr)

\* ClientCall.next: a closed channel yields (false, c.err); a reply yields
\* (reply.Continues, &Error{...}) or (reply.Continues, the parameters)
NextOutcome(ch, storedErr) ==
  IF ch.buf # <<>>
  THEN Result("reply", ChanRecv(ch), ChanRecv(ch).error)
  ELSE Result("closed", NoReply, storedErr)

AfterRecv(ch) == IF ch.buf # <<>> THEN [ch EXCEPT !.buf = Tail(@)] ELSE ch

ProtocolViolationIgnored(continues) == FALSE

\* if continues { c.conn.Close(); return fmt.Errorf(...) }
ProtocolViolation(continues) == continues

\* Do after do() succeeded: continues, err := cc.next(out)
DoNext(c) ==
  /\ cpc[c] = "wait"
  /\ CanRecv(chans[c])
  /\ LET r == NextOutcome(chans[c], cerr) IN
       IF ProtocolViolation(r.continues)
       THEN /\ connClosed' = TRUE
            /\ Returned(c, [r EXCEPT !.kind = "proto"])
       ELSE /\ Returned(c, r)
            /\ UNCHANGED connClosed
  /\ chans' = [chans EXCEPT ![c] = AfterRecv(@)]
  /\ cpc' = [cpc EXCEPT ![c] = "done"]
  /\ UNCHANGED <<mutex, pending, cerr, wbuf, wire, wireIn, cmore, chnil, rpc,
                 rreply, rch, rerr, lastDeliv, pIdx, pSeq, pErrs, peerOK>>
  /\ UNCHANGED <<serverVars, onewayVars, codecVars, readVars, serveVars>>

NextExhaustsInverted(continues) == continues

\* if !continues { cc.ch = nil }
NextExhausts(continues) == ~continues

\* ClientCall.Next on the handle returned by DoMore
Next(c) ==
  /\ cpc[c] = "handle"
  /\ Len(results[c]) < MaxNext
  /\ IF chnil[c]
     THEN /\ Returned(c, Result("eof", NoReply, "EOF"))
          /\ UNCHANGED <<chans, chnil>>
     ELSE /\ CanRecv(chans[c])
          /\ LET r == NextOutcome(chans[c], cerr) IN
               /\ Returned(c, r)
               /\ chnil' = [chnil EXCEPT ![c] = NextExhausts(r.continues)]
          /\ chans' = [chans EXCEPT ![c] = AfterRecv(@)]
  /\ UNCHANGED <<mutex, pending, cerr, connClosed, wbuf, wire, wireIn, cpc,
                 cmore, rpc, rreply, rch, rerr, lastDeliv, pIdx, pSeq,
                 pErrs, peerOK>>
  /\ UNCHANGED <<serverVars, onewayVars, codecVars, readVars, serveVars>>

\* Client.Close
Close ==
  /\ ~connClosed
  /\ connClosed' = TRUE
  /\ UNCHANGED <<mutex, pending, cerr, wbuf, wire, wireIn, chans, cpc, cmore,
                 chnil, results, rpc, rreply, rch, rerr, lastDeliv, pIdx,
                 pSeq, pErrs, peerOK>>
  /\ UNCHANGED <<serverVars, onewayVars, codecVars, readVars, serveVars>>

(* ------------------------------ the peer ------------------------------- *)
\* The peer decodes the frames on the wire and answers them.  Answering a
\* more=false request with continues=true, or sending a reply nobody asked
\* for, is a protocol violation; the peer commits at most one.
PeerReply(cont, e) ==
  /\ pIdx < Len(Frames(wire))
  /\ LET id == Frames(wire)[pIdx + 1] IN
       /\ id \in Calls
       /\ cont => pSeq < MaxStream
       /\ e # "" => pErrs < MaxErrs
       /\ pErrs' = IF e # "" THEN pErrs + 1 ELSE pErrs
       /\ (cont /\ ~cmore[id]) => peerOK
       /\ peerOK' = (peerOK /\ (cont => cmore[id]))
       /\ wireIn' = Append(wireIn, [for |-> id, seq |-> pSeq + 1,
                                    continues |-> cont, error |-> e])
  /\ IF cont
     THEN pSeq' = pSeq + 1 /\ UNCHANGED pIdx
     ELSE pSeq' = 0 /\ pIdx' = pIdx + 1
  /\ UNCHANGED <<mutex, pending, cerr, connClosed, wbuf, wire, chans, cpc,
                 cmore, chnil, results, rpc, rreply, rch, rerr, lastDeliv>>
  /\ UNCHANGED <<serverVars, onewayVars, codecVars, readVars, serveVars>>

PeerUnsolicited(cont) ==
  /\ peerOK
  /\ peerOK' = FALSE
  /\ wireIn' = Append(wireIn, [for |-> 0, seq |-> 1, continues |-> cont,
                               error |-> ""])
  /\ UNCHANGED <<mutex, pending, cerr, connClosed, wbuf, wire, chans, cpc,
                 cmore, chnil, results, rpc, rreply, rch, rerr, lastDeliv,
                 pIdx, pSeq, pErrs>>
  /\ UNCHANGED <<serverVars, onewayVars, codecVars, readVars, serveVars>>

NextClient ==
  \/ \E c \in Calls, more \in BOOLEAN : WriteRequestLock(c, more)
  \/ \E c \in Calls : WriteMessageEncode(c)
  \/ \E c \in Calls : WriteMessageFlush(c)
  \/ \E c \in Calls : WriteRequestFail(c)
  \/ ReadLoopRead
  \/ ReadLoopReadFail
  \/ ReadLoopRoute
  \/ ReadLoopNoRequest
  \/ ReadLoopSend
  \/ ReadLoopShutdown
  \/ \E c \in Calls : DoNext(c)
  \/ \E c \in Calls : Next(c)
  \/ Close
  \/ \E cont \in BOOLEAN, e \in ErrNames : PeerReply(cont, e)
  \/ \E cont \in BOOLEAN : PeerUnsolicited(cont)

(* --------------------- a long stream of replies ------------------------ *)
\* The peer answers a more=true request with one more continues=true
\* reply; how many of them the caller receives is up to the caller.
PeerStream ==
  /\ pIdx < Len(Frames(wire))
  /\ LET id == Frames(wire)[pIdx + 1] IN
       /\ id \in Calls
       /\ cmore[id]
       /\ pSeq < MaxFlood
       /\ Len(wireIn) < MaxInFlight
       /\ wireIn' = Append(wireIn, [for |-> id, seq |-> pSeq + 1,
                                    continues |-> TRUE, error |-> ""])
  /\ pSeq' = pSeq + 1
  /\ UNCHANGED <<mutex, pending, cerr, connClosed, wbuf, wire, chans, cpc,
                 cmore, chnil, results, rpc, rreply, rch, rerr, lastDeliv,
                 pIdx, pErrs, peerOK>>
  /\ UNCHANGED <<serverVars, onewayVars, codecVars, readVars, serveVars>>

\* callers, read loop and a peer that streams and ends its answers in order
NextStream ==
  \/ \E c \in Calls, more \in BOOLEAN : WriteRequestLock(c, more)
  \/ \E c \in Calls : WriteMessageEncode(c)
  \/ \E c \in Calls : WriteMessageFlush(c)
  \/ ReadLoopRead
  \/ ReadLoopRoute
  \/ ReadLoopSend
  \/ \E c \in Calls : DoNext(c)
  \/ \E c \in Calls : Next(c)
  \/ PeerStream
  \/ PeerReply(FALSE, "")

(* ------------------- a connection that does not fail ------------------- *)
\* the peer answers the oldest unanswered request, with continues=true
\* only when the request said more=true
PeerAnswer(cont, e) ==
  /\ pIdx < Len(Frames(wire))
  /\ cont => cmore[Frames(wire)[pIdx + 1]]
  /\ PeerReply(cont, e)

\* callers, read loop and peer; no write or read failure, no Close
NextLive ==
  \/ \E c \in Calls, more \in BOOLEAN : WriteRequestLock(c, more)
  \/ \E c \in Calls : WriteMessageEncode(c)
  \/ \E c \in Calls : WriteMessageFlush(c)
  \/ ReadLoopRead
  \/ ReadLoopRoute
  \/ ReadLoopSend
  \/ \E c \in Calls : DoNext(c)
  \/ \E c \in Calls : Next(c)
  \/ \E cont \in BOOLEAN, e \in ErrNames : PeerAnswer(cont, e)

\* A goroutine that can take its next step takes it: a caller inside
\* writeRequest finishes the write, Do receives once its channel has a
\* reply, the holder of a ClientCall keeps calling Next, the read loop
\* runs, and the peer ends the answer to every request it has got.  Whether
\* a caller submits at all is left open.
FairLive ==
  /\ \A c \in Calls : WF_vars(WriteMessageEncode(c))
  /\ \A c \in Calls : WF_vars(WriteMessageFlush(c))
  /\ \A c \in Calls : WF_vars(DoNext(c))
  /\ \A c \in Calls : WF_vars(Next(c))
  /\ WF_vars(ReadLoopRead)
  /\ WF_vars(ReadLoopRoute)
  /\ WF_vars(ReadLoopSend)
  /\ WF_vars(PeerAnswer(FALSE, ""))

(* ----------------------- the oneway submission ------------------------- *)
\* The submission path for oneway requests: it writes a request with
\* oneway=true under the client's mutex, queues no pending entry, and returns
\* once the write has completed; only a write failure is reported.
InitOneway ==
  /\ owpc = "start"
  /\ owres = "none"

\* the goroutine making the oneway submission, as a holder of the mutex
OnewayCaller == NumCalls + 1

\* the encoded request with oneway=true: it belongs to no pending call
OnewayTok == JsonTok(0)

\* the pending queue after a oneway submission: no entry is queued
OnewayQueue(q) == q

\* take the mutex; return the stored error if there is one
OnewayLock ==
  /\ owpc = "start"
  /\ CanLock(mutex)
  /\ pending' = OnewayQueue(pending)
  /\ IF cerr # "nil"
     THEN /\ owres' = cerr
          /\ owpc' = "done"
          /\ UNCHANGED mutex
     ELSE /\ mutex' = OnewayCaller
          /\ owpc' = "encode"
          /\ UNCHANGED owres
  /\ UNCHANGED <<cerr, connClosed, wbuf, wire, wireIn, chans, cpc, cmore,
                 chnil, results, rpc, rreply, rch, rerr, lastDeliv, pIdx,
                 pSeq, pErrs, peerOK>>
  /\ UNCHANGED <<serverVars, codecVars, readVars, serveVars>>

\* writeMessageLocked: c.enc.Encode(v) writes the request into c.brw
OnewayEncode ==
  /\ owpc = "encode"
  /\ wbuf' = Append(wbuf, OnewayTok)
  /\ owpc' = "flush"
  /\ UNCHANGED <<mutex, pending, cerr, connClosed, wire, wireIn, chans, cpc,
                 cmore, chnil, results, rpc, rreply, rch, rerr, lastDeliv,
                 pIdx, pSeq, pErrs, peerOK, owres>>
  /\ UNCHANGED <<serverVars, codecVars, readVars, serveVars>>

\* the write completes: the submission returns nil at once
OnewayFlush ==
  /\ owpc = "flush"
  /\ ~connClosed
  /\ wire' = wire \o Append(wbuf, NulTok)
  /\ wbuf' = <<>>
  /\ mutex' = Unlock(mutex, OnewayCaller)
  /\ owpc' = "done"
  /\ owres' = "nil"
  /\ UNCHANGED <<pending, cerr, connClosed, wireIn, chans, cpc, cmore, chnil,
                 results, rpc, rreply, rch, rerr, lastDeliv, pIdx, pSeq,
                 pErrs, peerOK>>
  /\ UNCHANGED <<serverVars, codecVars, readVars, serveVars>>

\* the write fails: the failure is returned to the caller synchronously
OnewayFail ==
  /\ owpc = "flush"
  /\ cerr' = "write"
  /\ connClosed' = TRUE
  /\ mutex' = Unlock(mutex, OnewayCaller)
  /\ owpc' = "done"
  /\ owres' = "write"
  /\ UNCHANGED <<pending, wbuf, wire, wireIn, chans, cpc, cmore, chnil,
                 results, rpc, rreply, rch, rerr, lastDeliv, pIdx, pSeq,
                 pErrs, peerOK>>
  /\ UNCHANGED <<serverVars, codecVars, readVars, serveVars>>

\* the peer decodes a oneway request and never answers it
PeerSkipOneway ==
  /\ pIdx < Len(Frames(wire))
  /\ Frames(wire)[pIdx + 1] = 0
  /\ pIdx' = pIdx + 1
  /\ UNCHANGED <<mutex, pending, cerr, connClosed, wbuf, wire, wireIn, chans,
                 cpc, cmore, chnil, results, rpc, rreply, rch, rerr,
                 lastDeliv, pSeq, pErrs, peerOK>>
  /\ UNCHANGED <<serverVars, onewayVars, codecVars, readVars, serveVars>>

\* the callers, the read loop and Close as in NextClient, one oneway
\* submission among them, and a peer that sends no unsolicited reply (so
\* the read loop never finds the queue empty)
NextOneway ==
  \/ \E c \in Calls, more \in BOOLEAN : WriteRequestLock(c, more)
  \/ \E c \in Calls : WriteMessageEncode(c)
  \/ \E c \in Calls : WriteMessageFlush(c)
  \/ \E c \in Calls : WriteRequestFail(c)
  \/ ReadLoopRead
  \/ ReadLoopReadFail
  \/ ReadLoopRoute
  \/ ReadLoopSend
  \/ ReadLoopShutdown
  \/ \E c \in Calls : DoNext(c)
  \/ \E c \in Calls : Next(c)
  \/ Close
  \/ \E cont \in BOOLEAN, e \in ErrNames : PeerReply(cont, e)
  \/ OnewayLock
  \/ OnewayEncode
  \/ OnewayFlush
  \/ OnewayFail
  \/ PeerSkipOneway

(* ================== conn.writeMessage / conn.readMessage =============== *)
\* The byte stream is a sequence of tokens: the JSON text of a value
\* (JsonTok), a newline, the zero byte (NulTok), the JSON text of a value of
\* the wrong type, an unfinished JSON text, and a byte that starts no JSON
\* text.
Values == {"a", "b"}
NlTok == <<"nl">>
MismatchTok == JsonTok("mismatch")
PartTok == <<"part">>
JunkTok == <<"junk">>
Bytes == {JsonTok(v) : v \in Values} \cup
         {NlTok, NulTok, MismatchTok, PartTok, JunkTok}

InitCodec ==
  /\ cnet = <<>>
  /\ cclosed = FALSE
  /\ csent = <<>>
  /\ craw = 0
  /\ dbuf = <<>>
  /\ derr = "nil"
  /\ rdpc = "idle"
  /\ rdv = "unset"
  /\ rdres = <<>>

\* json.Encoder.Encode: the JSON text of the value followed by a newline
Encode(v) == <<JsonTok(v), NlTok>>

\* conn.writeMessage: c.enc.Encode(v); c.brw.Write([]byte{0}); c.brw.Flush()
writeMessage(v) ==
  /\ ~cclosed
  /\ Len(csent) < MaxMsgs
  /\ cnet' = cnet \o Encode(v) \o <<NulTok>>
  /\ csent' = Append(csent, v)
  /\ UNCHANGED <<cclosed, craw, dbuf, derr, rdpc, rdv, rdres>>
  /\ UNCHANGED <<clientVars, serverVars, onewayVars, readVars, serveVars>>

\* a peer that is not this package writes bytes of its own
ForeignWrite(b) ==
  /\ ~cclosed
  /\ craw < MaxRaw
  /\ cnet' = Append(cnet, b)
  /\ craw' = craw + 1
  /\ UNCHANGED <<cclosed, csent, dbuf, derr, rdpc, rdv, rdres>>
  /\ UNCHANGED <<clientVars, serverVars, onewayVars, readVars, serveVars>>

\* the writing end closes the connection
WriterClose ==
  /\ ~cclosed
  /\ cclosed' = TRUE
  /\ UNCHANGED <<cnet, csent, craw, dbuf, derr, rdpc, rdv, rdres>>
  /\ UNCHANGED <<clientVars, serverVars, onewayVars, readVars, serveVars>>

\* the scanner skips white space before a value
RECURSIVE SkipSpace(_)
SkipSpace(buf) ==
  IF buf # <<>> /\ Head(buf) = NlTok THEN SkipSpace(Tail(buf)) ELSE buf

DecOut(kind, err, v, rest) == [kind |-> kind, err |-> err, v |-> v, rest |-> rest]

\* json.Decoder.Decode on the buffered bytes: readValue scans one value and
\* stops right behind it; eof says that the last read from the connection
\* returned io.EOF.  "more": the scanner needs bytes it does not have.
Decode(buf, eof) ==
  LET b == SkipSpace(buf) IN
    IF b = <<>>
    THEN IF eof THEN DecOut("error", "EOF", "unset", buf)
         ELSE DecOut("more", "nil", "unset", buf)
    ELSE IF Head(b) = PartTok
    THEN IF Len(b) > 1 THEN DecOut("error", "syntax", "unset", buf)
         ELSE IF eof THEN DecOut("error", "unexpectedEOF", "unset", buf)
         ELSE DecOut("more", "nil", "unset", buf)
    ELSE IF Head(b) = MismatchTok
    THEN DecOut("error", "type", "partial", Tail(b))
    ELSE IF Head(b)[1] = "json"
    THEN DecOut("value", "nil", Head(b)[2], Tail(b))
    ELSE DecOut("error", "syntax", "unset", buf)

\* the errors json.Decoder keeps in dec.err and returns from then on
Sticky(err) == err \in {"EOF", "unexpectedEOF", "syntax"}

ReadResult(err, v) == [err |-> err, v |-> v]

\* a caller enters readMessage(v)
readMessageCall ==
  /\ rdpc = "idle"
  /\ Len(rdres) < MaxReads
  /\ rdpc' = "decode"
  /\ rdv' = "unset"
  /\ UNCHANGED <<cnet, cclosed, csent, craw, dbuf, derr, rdres>>
  /\ UNCHANGED <<clientVars, serverVars, onewayVars, readVars, serveVars>>

\* dec.refill: one Read from c.brw appends the bytes it returns (some or all
\* of those that have arrived) to the decoder's buffer
decRefill(k) ==
  /\ rdpc = "decode"
  /\ derr = "nil"
  /\ Decode(dbuf, FALSE).kind = "more"
  /\ k \in 1..Len(cnet)
  /\ dbuf' = dbuf \o SubSeq(cnet, 1, k)
  /\ cnet' = SubSeq(cnet, k + 1, Len(cnet))
  /\ UNCHANGED <<cclosed, csent, craw, derr, rdpc, rdv, rdres>>
  /\ UNCHANGED <<clientVars, serverVars, onewayVars, readVars, serveVars>>

\* if err := c.dec.Decode(v); err != nil { return err }
readMessageDecode ==
  /\ rdpc = "decode"
  /\ IF derr # "nil"
     THEN /\ rdres' = Append(rdres, ReadResult(derr, rdv))
          /\ rdpc' = "idle"
          /\ UNCHANGED <<dbuf, derr, rdv>>
     ELSE LET o == Decode(dbuf, cnet = <<>> /\ cclosed) IN
            /\ o.kind # "more"
            /\ dbuf' = o.rest
            /\ rdv' = o.v
            /\ IF o.kind = "value"
               THEN /\ rdpc' = "nul"
                    /\ UNCHANGED <<derr, rdres>>
               ELSE /\ derr' = IF Sticky(o.err) THEN o.err ELSE derr
                    /\ rdres' = Append(rdres, ReadResult(o.err, o.v))
                    /\ rdpc' = "idle"
  /\ UNCHANGED <<cnet, cclosed, csent, craw>>
  /\ UNCHANGED <<clientVars, serverVars, onewayVars, readVars, serveVars>>

NulErrorNever(buffered) == "nil"

\* io.ReadFull(c.dec.Buffered(), b[:]): one byte of what the decoder has
\* buffered behind the value; b[0] != 0 is an error
NulError(buffered) ==
  IF buffered = <<>> THEN "EOF"
  ELSE IF Head(buffered) # NulTok THEN "nonul"
  ELSE "nil"

\* the delimiter check; reading from Buffered() takes nothing out of the
\* decoder's buffer
readMessageNul ==
  /\ rdpc = "nul"
  /\ rdres' = Append(rdres, ReadResult(NulError(dbuf), rdv))
  /\ rdpc' = "idle"
  /\ UNCHANGED <<cnet, cclosed, csent, craw, dbuf, derr, rdv>>
  /\ UNCHANGED <<clientVars, serverVars, onewayVars, readVars, serveVars>>

NextCodec ==
  \/ \E v \in Values : writeMessage(v)
  \/ \E b \in Bytes : ForeignWrite(b)
  \/ WriterClose
  \/ readMessageCall
  \/ \E k \in 1..(MaxRaw + 3 * MaxMsgs) : decRefill(k)
  \/ readMessageDecode
  \/ readMessageNul

(* ====================== varlinkdef.Read (the parser) =================== *)
\* A text is a sequence of characters, each a one-character string.
\* Pointers are sequences of length 0 (nil) or 1.
Upper == {"A", "B", "C", "D", "E", "F", "G", "H", "I", "J", "K", "L", "M",
          "N", "O", "P", "Q", "R", "S", "T", "U", "V", "W", "X", "Y", "Z"}
Lower == {"a", "b", "c", "d", "e", "f", "g", "h", "i", "j", "k", "l", "m",
          "n", "o", "p", "q", "r", "s", "t", "u", "v", "w", "x", "y", "z"}
Digit == {"0", "1", "2", "3", "4", "5", "6", "7", "8", "9"}

\* the tokens the parser compares with
LParen == <<"(">>
RParen == <<")">>
Comma == <<",">>
Colon == <<":">>
Question == <<"?">>
Arrow == <<"-", ">">>
ArrayTok == <<"[", "]">>
MapTok == <<"[", "s", "t", "r", "i", "n", "g", "]">>
KwInterface == <<"i", "n", "t", "e", "r", "f", "a", "c", "e">>
KwType == <<"t", "y", "p", "e">>
KwMethod == <<"m", "e", "t", "h", "o", "d">>
KwError == <<"e", "r", "r", "o", "r">>
KwBool == <<"b", "o", "o", "l">>
KwInt == <<"i", "n", "t">>
KwFloat == <<"f", "l", "o", "a", "t">>
KwString == <<"s", "t", "r", "i", "n", "g">>
KwObject == <<"o", "b", "j", "e", "c", "t">>

isAlpha(ch) == ch \in Upper \/ ch \in Lower

isAlphaNum(ch) == isAlpha(ch) \/ ch \in Digit

\* the bytes isAlphaNum accepts
AlphaNum == {ch \in Upper \cup Lower \cup Digit : isAlphaNum(ch)}

\* containsOnly(s, f), f given as the set of the bytes it accepts
containsOnly(s, f) == \A i \in 1..Len(s) : s[i] \in f

\* isAlphaNum(ch) || ch == '-' || ch == '.'
InterfaceNameRest == AlphaNum \cup {"-", "."}

isInterfaceName(s) ==
  Len(s) > 0 /\ isAlpha(s[1]) /\ containsOnly(Tail(s), InterfaceNameRest)

isNameAnyCase(s) ==
  Len(s) > 0 /\ isAlpha(s[1]) /\ containsOnly(Tail(s), AlphaNum)

isName(s) == Len(s) > 0 /\ s[1] \in Upper /\ containsOnly(Tail(s), AlphaNum)

\* isAlphaNum(ch) || ch == '_'
FieldNameRest == AlphaNum \cup {"_"}

isFieldName(s) ==
  Len(s) > 0 /\ isAlpha(s[1]) /\ containsOnly(Tail(s), FieldNameRest)

parseBasicType(token) ==
  IF token = KwBool THEN "bool"
  ELSE IF token = KwInt THEN "int"
  ELSE IF token = KwFloat THEN "float"
  ELSE IF token = KwString THEN "string"
  ELSE IF token = KwObject THEN "object"
  ELSE "0"

(* ------------------------------ tokenizer ------------------------------ *)
\* the decoder reads the text t through a bufio.Reader: p is the index of
\* the next byte ReadByte returns, UnreadByte steps one back
Pos(err, pos) == [err |-> err, pos |-> pos]

skipCommentOneByte(t, p) ==
  IF p > Len(t) THEN Pos("EOF", p) ELSE Pos("nil", p + 1)

\* skipComment reads up to and including the end of the line
RECURSIVE skipComment(_, _)
skipComment(t, p) ==
  IF p > Len(t) THEN Pos("EOF", p)
  ELSE IF t[p] = "\n" THEN Pos("nil", p + 1)
  ELSE skipComment(t, p + 1)

Whitespace == {" ", "\t", "\r", "\n"}

RECURSIVE skipWhitespace(_, _)
RECURSIVE afterComment(_, _)

\* skipWhitespace: after '#' the comment is skipped and the loop goes on
skipWhitespace(t, p) ==
  IF p > Len(t) THEN Pos("nil", p)
  ELSE IF t[p] \in Whitespace THEN skipWhitespace(t, p + 1)
  ELSE IF t[p] = "#" THEN afterComment(t, skipComment(t, p + 1))
  ELSE Pos("nil", p)

\* if err := dec.skipComment(); err != nil { return err }
afterComment(t, c) == IF c.err # "nil" THEN c ELSE skipWhitespace(t, c.pos)

Tok(tok, err, pos) == [tok |-> tok, err |-> err, pos |-> pos]

\* the loop of readToken, sb being the strings.Builder
RECURSIVE scanToken(_, _, _)
scanToken(t, p, sb) ==
  IF p > Len(t)
  THEN IF Len(sb) > 0 THEN Tok(sb, "nil", p) ELSE Tok(<<>>, "EOF", p)
  ELSE IF t[p] \in {"?", "(", ")", ",", ":"}
  THEN IF Len(sb) > 0 THEN Tok(sb, "nil", p) ELSE Tok(<<t[p]>>, "nil", p + 1)
  ELSE IF t[p] \in {"]", ">"} THEN Tok(Append(sb, t[p]), "nil", p + 1)
  ELSE IF t[p] \in Whitespace \cup {"#"} THEN Tok(sb, "nil", p)
  ELSE scanToken(t, p + 1, Append(sb, t[p]))

\* readToken once skipWhitespace has returned w
afterWhitespace(t, w) ==
  IF w.err # "nil" THEN Tok(<<>>, w.err, w.pos)
  ELSE scanToken(t, w.pos, <<>>)

readToken(t, p) == afterWhitespace(t, skipWhitespace(t, p))

(* -------------------------------- parser ------------------------------- *)
\* fmt.Errorf("in ...: %v", err): the result is never io.EOF itself
Wrap(err) == IF err = "EOF" THEN "in: EOF" ELSE err

Res(val, err, pos) == [val |-> val, err |-> err, pos |-> pos]

Fail(err, pos) == Res(<<>>, err, pos)

\* expectToken once readToken has returned got
expected(got, token) ==
  IF got.err # "nil" THEN Pos(Wrap(got.err), got.pos)
  ELSE IF got.tok # token THEN Pos("syntax", got.pos)
  ELSE Pos("nil", got.pos)

expectToken(t, p, token) == expected(readToken(t, p), token)

\* readInterfaceName once readToken has returned name
interfaceNameOf(name) ==
  IF name.err # "nil" THEN Tok(<<>>, Wrap(name.err), name.pos)
  ELSE IF ~isInterfaceName(name.tok) THEN Tok(<<>>, "syntax", name.pos)
  ELSE name

readInterfaceName(t, p) == interfaceNameOf(readToken(t, p))

\* readName once readToken has returned name
nameOf(name) ==
  IF name.err # "nil" THEN Tok(<<>>, Wrap(name.err), name.pos)
  ELSE IF ~isName(name.tok) THEN Tok(<<>>, "syntax", name.pos)
  ELSE name

readName(t, p) == nameOf(readToken(t, p))

\* map[string]...: a function from the keys to the values
EmptyMap == [k \in {} |-> <<>>]

Put(m, k, v) == [x \in DOMAIN m \cup {k} |-> IF x = k THEN v ELSE m[x]]

\* varlinkdef.Type
MkType(kind, nullable, inner, name, struct, enum) ==
  [kind |-> kind, nullable |-> nullable, inner |-> inner, name |-> name,
   struct |-> struct, enum |-> enum]

\* var typ Type
ZeroType == MkType("0", FALSE, <<>>, <<>>, EmptyMap, <<>>)

BasicType(kind) == MkType(kind, FALSE, <<>>, <<>>, EmptyMap, <<>>)

NamedType(name) == MkType("name", FALSE, <<>>, name, EmptyMap, <<>>)

ClassifyCommaOnly(kind, sep) ==
  IF kind = "0"
  THEN IF sep = Comma THEN "enum"
       ELSE IF sep = Colon THEN "struct"
       ELSE "error"
  ELSE IF kind = "enum"
  THEN IF sep # Comma /\ sep # RParen THEN "error" ELSE kind
  ELSE IF sep # Colon THEN "error" ELSE kind

ClassifyFirstOnly(kind, sep) ==
  IF kind = "0"
  THEN IF sep \in {Comma, RParen} THEN "enum"
       ELSE IF sep = Colon THEN "struct"
       ELSE "error"
  ELSE kind

\* readStructOrEnum: the kind of the list after the separator that follows
\* a field name, "error" when the separator is not allowed
Classify(kind, sep) ==
  IF kind = "0"
  THEN IF sep \in {Comma, RParen} THEN "enum"
       ELSE IF sep = Colon THEN "struct"
       ELSE "error"
  ELSE IF kind = "enum"
  THEN IF sep # Comma /\ sep # RParen THEN "error" ELSE kind
  ELSE IF sep # Colon THEN "error" ELSE kind

RECURSIVE readStructOrEnum(_, _)
RECURSIVE listLoop(_, _, _)
RECURSIVE listName(_, _, _)
RECURSIVE listSep(_, _, _, _)
RECURSIVE listKind(_, _, _, _, _)
RECURSIVE listField(_, _, _, _)
RECURSIVE listNext(_, _, _)
RECURSIVE afterLParen(_, _)
RECURSIVE readElementType(_, _, _)
RECURSIVE elementType(_, _)
RECURSIVE readType(_, _)
RECURSIVE typeFirst(_, _)
RECURSIVE typeToken(_, _, _)
RECURSIVE typeInner(_, _, _)
RECURSIVE typeElement(_, _)

\* the loop of readStructOrEnum: token, err := dec.readToken()
listLoop(t, p, typ) == listName(t, typ, readToken(t, p))

\* the field name, then sep, err := dec.readToken()
listName(t, typ, token) ==
  IF token.err # "nil" THEN Fail(Wrap(token.err), token.pos)
  ELSE IF token.tok = RParen /\ typ.kind = "0"
  THEN Res(<<[typ EXCEPT !.kind = "struct", !.struct = EmptyMap]>>, "nil",
           token.pos)
  ELSE IF ~isFieldName(token.tok) THEN Fail("syntax", token.pos)
  ELSE listSep(t, typ, token.tok, readToken(t, token.pos))

\* the separator decides or checks the kind of the list
listSep(t, typ, name, sep) ==
  IF sep.err # "nil" THEN Fail(Wrap(sep.err), sep.pos)
  ELSE listKind(t, typ, name, sep, Classify(typ.kind, sep.tok))

\* an enum variant is appended; a struct field has its type read
listKind(t, typ, name, sep, kind) ==
  IF kind = "error" THEN Fail("syntax", sep.pos)
  ELSE IF kind = "enum"
  THEN IF sep.tok = RParen
       THEN Res(<<[typ EXCEPT !.kind = kind, !.enum = Append(@, name)]>>,
                "nil", sep.pos)
       ELSE listLoop(t, sep.pos,
                     [typ EXCEPT !.kind = kind, !.enum = Append(@, name)])
  ELSE listField(t, [typ EXCEPT !.kind = kind], name, readType(t, sep.pos))

\* typ.Struct[name] = *t, then sep, err = dec.readToken()
listField(t, typ, name, ft) ==
  IF ft.err # "nil" THEN Fail(Wrap(ft.err), ft.pos)
  ELSE listNext(t, [typ EXCEPT !.struct = Put(@, name, ft.val[1])],
                readToken(t, ft.pos))

\* ")" ends the struct, "," goes on
listNext(t, typ, sep) ==
  IF sep.err # "nil" THEN Fail(Wrap(sep.err), sep.pos)
  ELSE IF sep.tok = RParen THEN Res(<<typ>>, "nil", sep.pos)
  ELSE IF sep.tok = Comma THEN listLoop(t, sep.pos, typ)
  ELSE Fail("syntax", sep.pos)

\* readStructOrEnum once expectToken("(") has returned e
afterLParen(t, e) ==
  IF e.err # "nil" THEN Fail(e.err, e.pos)
  ELSE listLoop(t, e.pos, ZeroType)

readStructOrEnum(t, p) == afterLParen(t, expectToken(t, p, LParen))

structOfAny(typ) ==
  IF typ.err # "nil" THEN typ
  ELSE Res(<<typ.val[1].struct>>, "nil", typ.pos)

\* readStruct once readStructOrEnum has returned typ
structOf(typ) ==
  IF typ.err # "nil" THEN typ
  ELSE IF typ.val[1].kind # "struct" THEN Fail("syntax", typ.pos)
  ELSE Res(<<typ.val[1].struct>>, "nil", typ.pos)

readStruct(t, p) == structOf(readStructOrEnum(t, p))

\* readElementType with its token in hand; "(" is unread
elementType(t, tk) ==
  IF tk.err # "nil" THEN Fail(Wrap(tk.err), tk.pos)
  ELSE IF parseBasicType(tk.tok) # "0"
  THEN Res(<<BasicType(parseBasicType(tk.tok))>>, "nil", tk.pos)
  ELSE IF tk.tok = LParen THEN readStructOrEnum(t, tk.pos - 1)
  ELSE IF isName(tk.tok) THEN Res(<<NamedType(tk.tok)>>, "nil", tk.pos)
  ELSE Fail("syntax", tk.pos)

\* if token == "" { token, err = dec.readToken() }
readElementType(t, p, token) ==
  IF token = <<>> THEN elementType(t, readToken(t, p))
  ELSE elementType(t, Tok(token, "nil", p))

readType(t, p) == typeFirst(t, readToken(t, p))

\* if token == "?" { nullable = true; token, err = dec.readToken() }
typeFirst(t, first) ==
  IF first.err # "nil" THEN Fail(Wrap(first.err), first.pos)
  ELSE IF first.tok = Question
  THEN typeToken(t, TRUE, readToken(t, first.pos))
  ELSE typeToken(t, FALSE, first)

\* "[]" and "[string]" take an inner type, anything else is an element type
typeToken(t, nullable, token) ==
  IF token.err # "nil" THEN Fail(Wrap(token.err), token.pos)
  ELSE IF token.tok \in {ArrayTok, MapTok}
  THEN typeInner(IF token.tok = ArrayTok THEN "array" ELSE "map", nullable,
                 readType(t, token.pos))
  ELSE typeElement(nullable, readElementType(t, token.pos, token.tok))

typeInner(kind, nullable, inner) ==
  IF inner.err # "nil" THEN inner
  ELSE Res(<<MkType(kind, nullable, inner.val, <<>>, EmptyMap, <<>>)>>, "nil",
           inner.pos)

typeElementNever(nullable, typ) == typ

\* typ.Nullable = nullable
typeElement(nullable, typ) ==
  IF typ.err # "nil" THEN typ
  ELSE Res(<<[typ.val[1] EXCEPT !.nullable = nullable]>>, "nil", typ.pos)

\* varlinkdef.Interface and varlinkdef.Method
MkInterface(name, types, methods, errors) ==
  [name |-> name, types |-> types, methods |-> methods, errors |-> errors]

MkMethod(in, out) == [in |-> in, out |-> out]

\* readMember returns an error only; iface is updated in place
Member(iface, err, pos) == [iface |-> iface, err |-> err, pos |-> pos]

\* case "type": iface.Types[name] = *typ
memberType(iface, name, typ) ==
  IF typ.err # "nil" THEN Member(iface, typ.err, typ.pos)
  ELSE Member([iface EXCEPT !.types = Put(@, name, typ.val[1])], "nil",
              typ.pos)

\* case "method": iface.Methods[name] = Method{In: in, Out: out}
methodOut(iface, name, in, out) ==
  IF out.err # "nil" THEN Member(iface, out.err, out.pos)
  ELSE Member([iface EXCEPT
                 !.methods = Put(@, name, MkMethod(in.val[1], out.val[1]))],
              "nil", out.pos)

methodArrow(t, iface, name, in, arrow) ==
  IF arrow.err # "nil" THEN Member(iface, arrow.err, arrow.pos)
  ELSE methodOut(iface, name, in, readStruct(t, arrow.pos))

methodIn(t, iface, name, in) ==
  IF in.err # "nil" THEN Member(iface, in.err, in.pos)
  ELSE methodArrow(t, iface, name, in, expectToken(t, in.pos, Arrow))

\* case "error": iface.Errors[name] = st
memberError(iface, name, st) ==
  IF st.err # "nil" THEN Member(iface, st.err, st.pos)
  ELSE Member([iface EXCEPT !.errors = Put(@, name, st.val[1])], "nil",
              st.pos)

\* readMember once the keyword and the name are read
memberBody(t, iface, keyword, name) ==
  IF name.err # "nil" THEN Member(iface, name.err, name.pos)
  ELSE IF keyword = KwType
  THEN memberType(iface, name.tok, readStructOrEnum(t, name.pos))
  ELSE IF keyword = KwMethod
  THEN methodIn(t, iface, name.tok, readStruct(t, name.pos))
  ELSE memberError(iface, name.tok, readStruct(t, name.pos))

\* readMember once the keyword is read; an error of this first readToken
\* is returned as it is
memberKeyword(t, iface, keyword) ==
  IF keyword.err # "nil" THEN Member(iface, keyword.err, keyword.pos)
  ELSE IF keyword.tok \in {KwType, KwMethod, KwError}
  THEN memberBody(t, iface, keyword.tok, readName(t, keyword.pos))
  ELSE Member(iface, "syntax", keyword.pos)

readMember(t, p, iface) == memberKeyword(t, iface, readToken(t, p))

ReadRes(iface, err) == [iface |-> iface, err |-> err]

ReturnPartial(iface, err) == ReadRes(<<iface>>, err)

\* return nil, err
ReturnError(iface, err) == ReadRes(<<>>, err)

EndOfInputNever(err) == FALSE

\* if err := dec.readMember(iface); err == io.EOF { break }
EndOfInput(err) == err = "EOF"

RECURSIVE memberLoop(_, _, _)
RECURSIVE afterMember(_, _, _)

\* the loop of readInterface
memberLoop(t, p, iface) == afterMember(t, iface, readMember(t, p, iface))

afterMember(t, iface, m) ==
  IF EndOfInput(m.err) THEN ReadRes(<<iface>>, "nil")
  ELSE IF m.err # "nil" THEN ReturnError(m.iface, m.err)
  ELSE memberLoop(t, m.pos, m.iface)

\* readInterface once the interface name is read
afterInterfaceName(t, name) ==
  IF name.err # "nil" THEN ReadRes(<<>>, name.err)
  ELSE memberLoop(t, name.pos,
                  MkInterface(name.tok, EmptyMap, EmptyMap, EmptyMap))

\* readInterface once expectToken("interface") has returned kw
afterInterface(t, kw) ==
  IF kw.err # "nil" THEN ReadRes(<<>>, kw.err)
  ELSE afterInterfaceName(t, readInterfaceName(t, kw.pos))

readInterface(t) == afterInterface(t, expectToken(t, 1, KwInterface))

\* varlinkdef.Read
Read(t) == readInterface(t)

(* --------------------- interface definitions to read ------------------- *)
\* An input is described by its declarations; its text is printed from them
\* in one of three styles, and may be cut short.
IfaceName == <<"a", ".", "b">>
BadIfaceName == <<"1", "a">>
NameT == <<"T">>
NameM == <<"M", "1">>
NameE == <<"E", "r">>
NameLower == <<"t">>
FieldA == <<"a">>
FieldB == <<"b", "_", "1">>
FieldUpper == <<"B">>
FieldX == <<"x">>
FieldY == <<"y", "2">>

Nullable(ty) == [ty EXCEPT !.nullable = TRUE]

ArrayOf(ty) == MkType("array", FALSE, <<ty>>, <<>>, EmptyMap, <<>>)

MapOf(ty) == MkType("map", FALSE, <<ty>>, <<>>, EmptyMap, <<>>)

EnumOf(variants) == MkType("enum", FALSE, <<>>, <<>>, EmptyMap, variants)

StructOf(fields) == MkType("struct", FALSE, <<>>, <<>>, fields, <<>>)

\* the field types written in the inputs
FieldTypes ==
  {BasicType("int"),
   Nullable(ArrayOf(NamedType(NameT))),
   MapOf(Nullable(EnumOf(<<FieldX, FieldY>>))),
   StructOf(Put(EmptyMap, FieldX, BasicType("bool")))}

\* a type expression written token by token: the marks "?", "[]" and
\* "[string]" in front, then an atom, which is a type without marks
\* (atom = <<the type>>) or a token that begins no type (atom = <<>>)
Expr(marks, atom, bad) ==
  [kind |-> "expr", marks |-> marks, atom |-> atom, bad |-> bad]

Marks == {Question, ArrayTok, MapTok}

Atoms ==
  {BasicType(k) : k \in {"bool", "int", "float", "string", "object"}} \cup
  {NamedType(NameT),
   EnumOf(<<FieldX, FieldY>>),
   StructOf(Put(EmptyMap, FieldX, BasicType("bool"))),
   StructOf(EmptyMap)}

\* a lowercase identifier, an arrow, a map with another key type, a
\* capitalized word with an underscore
BadAtoms == {NameLower, Arrow, <<"[", "i", "n", "t", "]">>, <<"T", "_", "a">>}

Exprs ==
  {Expr(m, <<a>>, <<>>) :
     m \in UNION {[1..k -> Marks] : k \in 0..MaxMarks}, a \in Atoms} \cup
  {Expr(m, <<>>, b) :
     m \in UNION {[1..k -> Marks] : k \in 0..MaxMarks}, b \in BadAtoms}

\* one element of a parenthesized list: a bare identifier (typ = <<>>) or
\* a name: type pair (typ = <<the type>>)
Elem(name, typ) == [name |-> name, typ |-> typ]

Elems(names, types) ==
  {Elem(n, <<>>) : n \in names} \cup
  {Elem(n, <<ty>>) : n \in names, ty \in types}

ListsOver(elems, n) == UNION {[1..k -> elems] : k \in 0..n}

MemberDecl(kw, name, in, out) ==
  [kw |-> kw, name |-> name, in |-> in, out |-> out]

Styles == {"spaced", "compact", "commented"}

Input(hdr, members, style, drop) ==
  [hdr |-> hdr, members |-> members, style |-> style, drop |-> drop]

(* ------------------------------- printing ------------------------------ *)
KindToken(kind) ==
  CASE kind = "bool" -> KwBool
    [] kind = "int" -> KwInt
    [] kind = "float" -> KwFloat
    [] kind = "string" -> KwString
    [] kind = "object" -> KwObject

RECURSIVE Interleave(_, _)
Interleave(seqs, sep) ==
  IF seqs = <<>> THEN <<>>
  ELSE IF Len(seqs) = 1 THEN seqs[1]
  ELSE seqs[1] \o sep \o Interleave(Tail(seqs), sep)

\* the keys of a map in some fixed order
RECURSIVE KeysOf(_)
KeysOf(S) ==
  IF S = {} THEN <<>>
  ELSE LET k == CHOOSE x \in S : TRUE IN <<k>> \o KeysOf(S \ {k})

\* the tokens of a type expression
RECURSIVE TypeTokens(_)
TypeTokens(ty) ==
  IF ty.kind = "expr"
  THEN ty.marks \o (IF ty.atom = <<>> THEN <<ty.bad>>
                    ELSE TypeTokens(ty.atom[1]))
  ELSE
  (IF ty.nullable THEN <<Question>> ELSE <<>>) \o
  (CASE ty.kind = "array" -> <<ArrayTok>> \o TypeTokens(ty.inner[1])
     [] ty.kind = "map" -> <<MapTok>> \o TypeTokens(ty.inner[1])
     [] ty.kind = "name" -> <<ty.name>>
     [] ty.kind = "enum" ->
          <<LParen>> \o
          Interleave([i \in 1..Len(ty.enum) |-> <<ty.enum[i]>>], <<Comma>>) \o
          <<RParen>>
     [] ty.kind = "struct" ->
          LET ks == KeysOf(DOMAIN ty.struct) IN
            <<LParen>> \o
            Interleave([i \in 1..Len(ks) |->
                          <<ks[i], Colon>> \o TypeTokens(ty.struct[ks[i]])],
                       <<Comma>>) \o
            <<RParen>>
     [] OTHER -> <<KindToken(ty.kind)>>)

ElemTokens(e) ==
  IF e.typ = <<>> THEN <<e.name>>
  ELSE <<e.name, Colon>> \o TypeTokens(e.typ[1])

ListTokens(list) ==
  <<LParen>> \o
  Interleave([i \in 1..Len(list) |-> ElemTokens(list[i])], <<Comma>>) \o
  <<RParen>>

MemberTokens(m) ==
  <<m.kw, m.name>> \o ListTokens(m.in) \o
  (IF m.kw = KwMethod THEN <<Arrow>> \o ListTokens(m.out) ELSE <<>>)

\* without white space between them the tokenizer would read a and b as one
NeedsSpace(a, b) ==
  /\ a \notin {Question, LParen, RParen, Comma, Colon}
  /\ a[Len(a)] \notin {"]", ">"}
  /\ b[1] \notin {"?", "(", ")", ",", ":"}

Gap(style, a, b) ==
  IF style = "spaced" THEN <<" ">>
  ELSE IF style = "compact"
  THEN IF NeedsSpace(a, b) THEN <<" ">> ELSE <<>>
  ELSE IF a = LParen THEN <<" ", "#", "(", ":", "\n">>
  ELSE <<"\t">>

RECURSIVE JoinTokens(_, _)
JoinTokens(toks, style) ==
  IF toks = <<>> THEN <<>>
  ELSE IF Len(toks) = 1 THEN toks[1]
  ELSE toks[1] \o Gap(style, toks[1], toks[2]) \o JoinTokens(Tail(toks), style)

\* what stands before every member, and behind the last
MemberSep(style) ==
  IF style = "commented" THEN <<"\r", "\n", "#", " ", "x", "\n">>
  ELSE <<"\n">>

Trailer(style) ==
  IF style = "spaced" THEN <<"\n">>
  ELSE IF style = "compact" THEN <<>>
  ELSE <<"\n", "#", " ", "x">>

HeaderText(hdr, style) ==
  CASE hdr = "ok" -> JoinTokens(<<KwInterface, IfaceName>>, style)
    [] hdr = "nokw" -> IfaceName
    [] hdr = "badname" -> JoinTokens(<<KwInterface, BadIfaceName>>, style)
    [] hdr = "kwonly" -> KwInterface

\* the text up to the end of the k-th member
RECURSIVE TextUpTo(_, _)
TextUpTo(in, k) ==
  IF k = 0 THEN HeaderText(in.hdr, in.style)
  ELSE TextUpTo(in, k - 1) \o MemberSep(in.style) \o
       JoinTokens(MemberTokens(in.members[k]), in.style)

FullText(in) == TextUpTo(in, Len(in.members)) \o Trailer(in.style)

\* the text handed to Read
TextOf(in) ==
  LET full == FullText(in) IN SubSeq(full, 1, Len(full) - in.drop)

(* ----------------- what the grammar says about an input ---------------- *)
\* field names are lowercase-leading identifiers with optional underscores
GrammarFieldName(s) ==
  Len(s) > 0 /\ s[1] \in Lower /\
  \A i \in 2..Len(s) : s[i] \in Lower \cup Upper \cup Digit \cup {"_"}

\* type, method and error names are capitalized identifiers
GrammarName(s) ==
  Len(s) > 0 /\ s[1] \in Upper /\
  \A i \in 2..Len(s) : s[i] \in Lower \cup Upper \cup Digit

DistinctNames(list) ==
  \A i, j \in 1..Len(list) : i # j => list[i].name # list[j].name

AllBare(list) == \A i \in 1..Len(list) : list[i].typ = <<>>

AllTyped(list) == \A i \in 1..Len(list) : list[i].typ # <<>>

\* a list that changes its syntax behind the first element
MixedList(list) == ~AllBare(list) /\ ~AllTyped(list)

\* the type a type expression stands for, <<>> when it is none: "?" makes
\* the type behind it nullable and cannot be followed by another "?", "[]"
\* and "[string]" take the type expression behind them as their inner type
RECURSIVE ExprType(_, _)
ExprType(marks, atom) ==
  IF marks = <<>> THEN atom
  ELSE IF Head(marks) = Question /\ Len(marks) > 1 /\ marks[2] = Question
  THEN <<>>
  ELSE LET r == ExprType(Tail(marks), atom) IN
         IF r = <<>> THEN <<>>
         ELSE IF Head(marks) = Question THEN <<Nullable(r[1])>>
         ELSE IF Head(marks) = ArrayTok THEN <<ArrayOf(r[1])>>
         ELSE <<MapOf(r[1])>>

\* the type a field is declared with
TypeOf(ty) == IF ty.kind = "expr" THEN ExprType(ty.marks, ty.atom) ELSE <<ty>>

ValidTypes(list) ==
  \A i \in 1..Len(list) : list[i].typ # <<>> => TypeOf(list[i].typ[1]) # <<>>

GrammarStruct(list) ==
  /\ AllTyped(list)
  /\ ValidTypes(list)
  /\ DistinctNames(list)
  /\ \A i \in 1..Len(list) : GrammarFieldName(list[i].name)

GrammarEnum(list) ==
  /\ Len(list) > 0
  /\ AllBare(list)
  /\ DistinctNames(list)
  /\ \A i \in 1..Len(list) : GrammarFieldName(list[i].name)

GrammarMember(m) ==
  /\ GrammarName(m.name)
  /\ IF m.kw = KwType THEN GrammarStruct(m.in) \/ GrammarEnum(m.in)
     ELSE IF m.kw = KwMethod THEN GrammarStruct(m.in) /\ GrammarStruct(m.out)
     ELSE GrammarStruct(m.in)

\* the members are well formed and no two of a kind have the same name
GrammarMembers(ms) ==
  /\ \A i \in 1..Len(ms) : GrammarMember(ms[i])
  /\ \A i, j \in 1..Len(ms) :
       (i # j /\ ms[i].kw = ms[j].kw) => ms[i].name # ms[j].name

\* the struct a list of name: type pairs declares
RECURSIVE DeclaredStruct(_)
DeclaredStruct(list) ==
  IF list = <<>> THEN EmptyMap
  ELSE Put(DeclaredStruct(SubSeq(list, 1, Len(list) - 1)),
           list[Len(list)].name, TypeOf(list[Len(list)].typ[1])[1])

\* the type a uniform list declares
DeclaredType(list) ==
  IF list # <<>> /\ AllBare(list)
  THEN EnumOf([i \in 1..Len(list) |-> list[i].name])
  ELSE StructOf(DeclaredStruct(list))

\* the Interface the first k members declare
RECURSIVE Declared(_, _)
Declared(ms, k) ==
  IF k = 0 THEN MkInterface(IfaceName, EmptyMap, EmptyMap, EmptyMap)
  ELSE LET i == Declared(ms, k - 1)
           m == ms[k]
       IN IF m.kw = KwType
          THEN [i EXCEPT !.types = Put(@, m.name, DeclaredType(m.in))]
          ELSE IF m.kw = KwMethod
          THEN [i EXCEPT !.methods =
                           Put(@, m.name, MkMethod(DeclaredStruct(m.in),
                                                   DeclaredStruct(m.out)))]
          ELSE [i EXCEPT !.errors = Put(@, m.name, DeclaredStruct(m.in))]

\* the text kept ends between two members (or behind the last)
AtMemberBoundary(in) ==
  LET kept == Len(FullText(in)) - in.drop IN
    \E k \in 0..Len(in.members) :
      /\ Len(TextUpTo(in, k)) <= kept
      /\ kept <= IF k = Len(in.members) THEN Len(FullText(in))
                 ELSE Len(TextUpTo(in, k)) + Len(MemberSep(in.style))

\* the number of members that are complete in the text kept
CompleteMembers(in) ==
  LET kept == Len(FullText(in)) - in.drop IN
    CHOOSE k \in 0..Len(in.members) :
      /\ Len(TextUpTo(in, k)) <= kept
      /\ \A j \in (k + 1)..Len(in.members) : Len(TextUpTo(in, j)) > kept

(* ------------------------- the inputs of SpecRead ---------------------- *)
\* every list of at most MaxElems elements, well formed or not
TypeLists ==
  ListsOver(Elems({FieldA, FieldB, FieldUpper}, FieldTypes), MaxElems)

TypeDecls ==
  {MemberDecl(KwType, NameT, l, <<>>) : l \in TypeLists} \cup
  {MemberDecl(KwType, NameLower, <<>>, <<>>)}

IntField == <<Elem(FieldA, <<BasicType("int")>>)>>

MethodDecls ==
  {MemberDecl(KwMethod, NameM, <<>>, <<>>),
   MemberDecl(KwMethod, NameM, IntField,
              <<Elem(FieldB, <<Nullable(ArrayOf(NamedType(NameT)))>>)>>),
   MemberDecl(KwMethod, NameM, <<Elem(FieldA, <<>>)>>, <<>>),
   MemberDecl(KwMethod, NameM, <<>>, <<Elem(FieldA, <<>>)>>)}

ErrorDecls ==
  {MemberDecl(KwError, NameE, <<>>, <<>>),
   MemberDecl(KwError, NameE, IntField, <<>>),
   MemberDecl(KwError, NameE, <<Elem(FieldA, <<>>)>>, <<>>)}

Opt(S) == {<<>>} \cup {<<m>> : m \in S}

\* whole texts: a type, a method and an error, each present or not
FullInputs ==
  {Input("ok", a \o b \o c, s, 0) :
     a \in Opt(TypeDecls), b \in Opt(MethodDecls), c \in Opt(ErrorDecls),
     s \in Styles}

\* texts that do not start with an interface declaration
HeaderInputs ==
  {Input(h, c, s, 0) :
     h \in {"nokw", "badname", "kwonly"}, c \in Opt(ErrorDecls), s \in Styles}

CutMembers ==
  {MemberDecl(KwType, NameT,
              <<Elem(FieldA, <<MapOf(Nullable(EnumOf(<<FieldX, FieldY>>)))>>)>>,
              <<>>),
   MemberDecl(KwType, NameT, <<Elem(FieldA, <<>>), Elem(FieldB, <<>>)>>, <<>>),
   MemberDecl(KwMethod, NameM, <<>>, IntField),
   MemberDecl(KwError, NameE, <<>>, <<>>)}

CutDecls ==
  Opt(CutMembers) \cup
  {<<a, b>> : a \in CutMembers, b \in {m \in CutMembers : m.kw # KwType}}

\* well-formed texts cut short anywhere behind the interface declaration
CutInputs ==
  {in \in {Input("ok", ms, s, d) : ms \in CutDecls, s \in Styles,
                                  d \in 1..MaxDrop} :
     Len(FullText(in)) - in.drop >= Len(HeaderText("ok", in.style))}

\* a type with one field, its type written as a type expression
ExprDecl(e) == MemberDecl(KwType, NameT, <<Elem(FieldA, <<e>>)>>, <<>>)

ExprInputs == {Input("ok", <<ExprDecl(e)>>, s, 0) : e \in Exprs, s \in Styles}

AllInputs == FullInputs \cup HeaderInputs \cup CutInputs \cup ExprInputs

InitRead(inputs) ==
  /\ pin \in inputs
  /\ psrc = TextOf(pin)
  /\ pout = <<>>
  /\ pout2 = <<>>

\* iface, err := varlinkdef.Read(r)
ReadText ==
  /\ pout = <<>>
  /\ pout' = <<Read(psrc)>>
  /\ UNCHANGED <<pin, psrc, pout2>>
  /\ UNCHANGED <<clientVars, serverVars, onewayVars, codecVars, serveVars>>

\* Read applied to the same text once more
ReadTextAgain ==
  /\ pout # <<>>
  /\ pout2 = <<>>
  /\ pout2' = <<Read(psrc)>>
  /\ UNCHANGED <<pin, psrc, pout>>
  /\ UNCHANGED <<clientVars, serverVars, onewayVars, codecVars, serveVars>>

NextRead ==
  \/ ReadText
  \/ ReadTextAgain

(* ============================ Server ================================== *)
\* parameters handed to Reply / CloseWithReply / ServerError: "chan" is a
\* value encoding/json cannot marshal
Params == {"p1", "chan"}
ErrorNames == {"x.Err"}

NoRet == [kind |-> "none", name |-> "", params |-> ""]

InitServer ==
  /\ spc = "read"
  /\ reqs = <<>>
  /\ done = FALSE
  /\ sOut = <<>>
  /\ sbroken = FALSE
  /\ sRet = "none"
  /\ opLog = <<>>
  /\ hret = NoRet

\* serveConn local: req
CurReq == reqs[Len(reqs)]

\* serverReply as it appears on the wire, tagged with the call it answers
ServerReply(id, continues, error, params) ==
  [id |-> id, continues |-> continues, error |-> error, params |-> params]

\* json.Encoder.Encode fails on a value it cannot marshal
Encodable(p) == p # "chan"

\* conn.writeMessage: Encode, Write NUL, Flush.  netfail: the transport
\* fails this write; a bufio.Writer that failed once fails ever after.
WriteMessage(out, broken, msg, netfail) ==
  IF ~Encodable(msg.params)
  THEN [err |-> "encode", out |-> out, broken |-> broken]
  ELSE IF broken \/ netfail
  THEN [err |-> "transport", out |-> out, broken |-> TRUE]
  ELSE [err |-> "nil", out |-> Append(out, msg), broken |-> broken]

ReplyNeverRefused(req) == FALSE

\* if !call.req.More: Reply is refused
ReplyRefused(req) == ~req.more

CloseNeverRefused(isDone) == FALSE

\* if call.done: CloseWithReply is refused
CloseRefused(isDone) == isDone

ReplyNeverSuppressed(req) == FALSE

\* if call.req.Oneway { return nil }
ReplySuppressed(req) == req.oneway

\* ServerCall.reply
CallReply(req, isDone, out, broken, msg, netfail) ==
  IF msg.continues /\ ReplyRefused(req)
  THEN [err |-> "nomore", done |-> isDone, out |-> out, broken |-> broken]
  ELSE IF ~msg.continues /\ CloseRefused(isDone)
  THEN [err |-> "twice", done |-> isDone, out |-> out, broken |-> broken]
  ELSE LET d == IF msg.continues THEN isDone ELSE TRUE
           w == WriteMessage(out, broken, msg, netfail)
       IN IF ReplySuppressed(req)
          THEN [err |-> "nil", done |-> d, out |-> out, broken |-> broken]
          ELSE [err |-> w.err, done |-> d, out |-> w.out, broken |-> w.broken]

(* --------------------------- Server.serveConn -------------------------- *)
AtLoopTopOrHandling(pc) == pc # "closed"

\* the for loop reads a request only at the top of an iteration, after the
\* handler of the previous request has returned
AtLoopTop(pc) == pc = "read"

UpgradeAccepted(up) == FALSE

\* if req.Upgrade { return fmt.Errorf(...) }
UpgradeRejected(up) == up

\* conn.readMessage(&req) yields a request; an upgrade request ends the
\* loop, any other is handed to the handler with a fresh ServerCall
ServeRead(ow, more, up) ==
  /\ AtLoopTop(spc)
  /\ Len(reqs) < MaxReqs
  /\ reqs' = Append(reqs, [id |-> Len(reqs) + 1, oneway |-> ow, more |-> more,
                           upgrade |-> up])
  /\ done' = FALSE
  /\ opLog' = <<>>
  /\ hret' = NoRet
  /\ IF UpgradeRejected(up)
     THEN spc' = "closed" /\ sRet' = "upgrade"
     ELSE spc' = "handle" /\ UNCHANGED sRet
  /\ UNCHANGED <<sOut, sbroken>>
  /\ UNCHANGED <<clientVars, onewayVars, codecVars, readVars, serveVars>>

\* what serveConn does with the error of conn.readMessage: io.EOF ends the
\* loop with nil, another error with "reading request", nil goes on ("none")
ServeReadResult(err) ==
  IF err = "EOF" THEN "nil"
  ELSE IF err # "nil" THEN "reading"
  ELSE "none"

\* the position of serveConn after the read: a return closes the
\* connection (defer conn.Close())
ServeConnEnd(ret) == IF ret = "none" THEN "handle" ELSE "closed"

\* conn.readMessage returns io.EOF (return nil) or another error
ServeReadEnd(eof) ==
  /\ spc = "read"
  /\ spc' = "closed"
  /\ sRet' = ServeReadResult(IF eof THEN "EOF" ELSE "unexpectedEOF")
  /\ UNCHANGED <<reqs, done, sOut, sbroken, opLog, hret>>
  /\ UNCHANGED <<clientVars, onewayVars, codecVars, readVars, serveVars>>

\* the handler calls call.Reply(p) or call.CloseWithReply(p)
HandlerOp(op, p, netfail) ==
  /\ spc = "handle"
  /\ Len(opLog) < MaxOps
  /\ LET msg == ServerReply(CurReq.id, op = "Reply", "", p)
         r == CallReply(CurReq, done, sOut, sbroken, msg, netfail)
     IN /\ done' = r.done
        /\ sOut' = r.out
        /\ sbroken' = r.broken
        /\ opLog' = Append(opLog, [op |-> op, err |-> r.err])
  /\ UNCHANGED <<spc, reqs, sRet, hret>>
  /\ UNCHANGED <<clientVars, onewayVars, codecVars, readVars, serveVars>>

ErrorReplyNoName(id, verr) == ServerReply(id, FALSE, "", verr.params)

\* the reply serveConn builds from a *ServerError
ErrorReply(id, verr) == ServerReply(id, FALSE, verr.name, verr.params)

\* if !req.Oneway && !call.done
MustReplyViolated(req, isDone) == ~req.oneway /\ ~isDone

IsServerErrorAny(ret) == ret.kind # "nil"

\* errors.As(err, &verr)
IsServerError(ret) == ret.kind = "verr"

\* the handler returns; serveConn deals with the returned error and with
\* the must-reply check, then loops or returns
HandlerReturn(ret, netfail) ==
  /\ spc = "handle"
  /\ hret' = ret
  /\ LET r == CallReply(CurReq, done, sOut, sbroken,
                        ErrorReply(CurReq.id, ret), netfail)
     IN CASE IsServerError(ret) /\ CurReq.oneway ->
               /\ spc' = "read"
               /\ UNCHANGED <<done, sOut, sbroken, sRet>>
          [] IsServerError(ret) /\ ~CurReq.oneway ->
               /\ done' = r.done
               /\ sOut' = r.out
               /\ sbroken' = r.broken
               /\ IF r.err # "nil"
                  THEN spc' = "closed" /\ sRet' = "writing"
                  ELSE IF MustReplyViolated(CurReq, r.done)
                  THEN spc' = "closed" /\ sRet' = "notclosed"
                  ELSE spc' = "read" /\ UNCHANGED sRet
          [] ~IsServerError(ret) /\ ret.kind # "nil" ->
               /\ spc' = "closed"
               /\ sRet' = "handling"
               /\ UNCHANGED <<done, sOut, sbroken>>
          [] ret.kind = "nil" ->
               /\ IF MustReplyViolated(CurReq, done)
                  THEN spc' = "closed" /\ sRet' = "notclosed"
                  ELSE spc' = "read" /\ UNCHANGED sRet
               /\ UNCHANGED <<done, sOut, sbroken>>
  /\ UNCHANGED <<reqs, opLog>>
  /\ UNCHANGED <<clientVars, onewayVars, codecVars, readVars, serveVars>>

\* the values a handler can return
HandlerRets ==
  {[kind |-> "nil", name |-> "", params |-> ""],
   [kind |-> "other", name |-> "", params |-> ""]}
  \cup {[kind |-> "verr", name |-> n, params |-> p] :
          n \in ErrorNames, p \in Params}

NextServer ==
  \/ \E ow \in BOOLEAN, more \in BOOLEAN, up \in BOOLEAN :
       ServeRead(ow, more, up)
  \/ \E eof \in BOOLEAN : ServeReadEnd(eof)
  \/ \E op \in {"Reply", "CloseWithReply"}, p \in Params,
        netfail \in BOOLEAN : HandlerOp(op, p, netfail)
  \/ \E ret \in HandlerRets, netfail \in BOOLEAN : HandlerReturn(ret, netfail)

(* ----------------------------- Server.Serve ---------------------------- *)
Conns == 1..NumConns

InitServe ==
  /\ lpc = "accept"
  /\ dialed = 0
  /\ accepted = 0
  /\ connpc = [j \in Conns |-> "none"]
  /\ nsent = [j \in Conns |-> 0]
  /\ nread = [j \in Conns |-> 0]
  /\ nansw = [j \in Conns |-> 0]
  /\ hung = [j \in Conns |-> FALSE]

OthersUnchanged ==
  UNCHANGED <<clientVars, serverVars, onewayVars, codecVars, readVars>>

\* a client connects; the connection waits in the listener's queue
Dial ==
  /\ dialed < NumConns
  /\ dialed' = dialed + 1
  /\ UNCHANGED <<lpc, accepted, connpc, nsent, nread, nansw, hung>>
  /\ OthersUnchanged

\* the client of a connection it has made sends a request
ClientSend(j) ==
  /\ j <= dialed
  /\ ~hung[j]
  /\ nsent[j] < MaxConnReqs
  /\ nsent' = [nsent EXCEPT ![j] = @ + 1]
  /\ UNCHANGED <<lpc, dialed, accepted, connpc, nread, nansw, hung>>
  /\ OthersUnchanged

\* the client closes its connection
ClientHangup(j) ==
  /\ j <= dialed
  /\ ~hung[j]
  /\ hung' = [hung EXCEPT ![j] = TRUE]
  /\ UNCHANGED <<lpc, dialed, accepted, connpc, nsent, nread, nansw>>
  /\ OthersUnchanged

CanAcceptSerial(pcs) == \A j \in Conns : pcs[j] \in {"none", "closed"}

\* go func() { srv.serveConn(...) }(): the loop is back at ln.Accept
\* whatever the serveConn goroutines started so far are doing
CanAccept(pcs) == TRUE

\* conn, err := ln.Accept() returns the next connection and Serve starts
\* its goroutine
Accept ==
  /\ lpc = "accept"
  /\ CanAccept(connpc)
  /\ accepted < dialed
  /\ accepted' = accepted + 1
  /\ connpc' = [connpc EXCEPT ![accepted + 1] = "read"]
  /\ UNCHANGED <<lpc, dialed, nsent, nread, nansw, hung>>
  /\ OthersUnchanged

\* ln.Accept fails (the listener was closed): return err
AcceptFail ==
  /\ lpc = "accept"
  /\ CanAccept(connpc)
  /\ lpc' = "returned"
  /\ UNCHANGED <<dialed, accepted, connpc, nsent, nread, nansw, hung>>
  /\ OthersUnchanged

\* serveConn of connection j reads the next request and calls the handler
ConnRead(j) ==
  /\ connpc[j] = "read"
  /\ nread[j] < nsent[j]
  /\ nread' = [nread EXCEPT ![j] = @ + 1]
  /\ connpc' = [connpc EXCEPT ![j] = "handle"]
  /\ UNCHANGED <<lpc, dialed, accepted, nsent, nansw, hung>>
  /\ OthersUnchanged

\* serveConn of connection j reads the end of the stream: return nil
ConnEnd(j) ==
  /\ connpc[j] = "read"
  /\ nread[j] = nsent[j]
  /\ hung[j]
  /\ connpc' = [connpc EXCEPT ![j] = ServeConnEnd(ServeReadResult("EOF"))]
  /\ UNCHANGED <<lpc, dialed, accepted, nsent, nread, nansw, hung>>
  /\ OthersUnchanged

\* the handler of connection j answers with CloseWithReply and returns nil,
\* or it blocks and never returns
ConnHandle(j, blocks) ==
  /\ connpc[j] = "handle"
  /\ IF blocks
     THEN /\ connpc' = [connpc EXCEPT ![j] = "blocked"]
          /\ UNCHANGED nansw
     ELSE /\ connpc' = [connpc EXCEPT ![j] = "read"]
          /\ nansw' = [nansw EXCEPT ![j] = @ + 1]
  /\ UNCHANGED <<lpc, dialed, accepted, nsent, nread, hung>>
  /\ OthersUnchanged

NextServe ==
  \/ Dial
  \/ \E j \in Conns : ClientSend(j)
  \/ \E j \in Conns : ClientHangup(j)
  \/ Accept
  \/ AcceptFail
  \/ \E j \in Conns : ConnRead(j)
  \/ \E j \in Conns : ConnEnd(j)
  \/ \E j \in Conns, blocks \in BOOLEAN : ConnHandle(j, blocks)

\* the goroutines run: Serve accepts what is waiting, each serveConn reads
\* what has arrived, and a handler that was called either answers or blocks
FairServe ==
  /\ WF_vars(Accept)
  /\ \A j \in Conns : WF_vars(ConnRead(j))
  /\ \A j \in Conns : WF_vars(\E blocks \in BOOLEAN : ConnHandle(j, blocks))

\* no text is read in the specifications of the connection
NoMembers == {Input("ok", <<>>, "compact", 0)}

Init ==
  /\ InitClient /\ InitOneway /\ InitCodec /\ InitServer /\ InitRead(NoMembers)
  /\ InitServe

SpecClient == Init /\ [][NextClient]_vars

SpecServer == Init /\ [][NextServer]_vars

SpecOneway == Init /\ [][NextOneway]_vars

SpecCodec == Init /\ [][NextCodec]_vars

SpecStream == Init /\ [][NextStream]_vars

SpecServe == Init /\ [][NextServe]_vars /\ FairServe

SpecLive == Init /\ [][NextLive]_vars /\ FairLive

InitReadAny ==
  /\ InitClient /\ InitOneway /\ InitCodec /\ InitServer /\ InitRead(AllInputs)
  /\ InitServe

SpecRead == InitReadAny /\ [][NextRead]_vars

(* ======================= Properties: Client ============================ *)
\* something other than a reply is returned only once the connection has
\* been closed or has failed
ConnDown == connClosed \/ cerr # "nil"

\* C1: with a peer that answers the requests in wire order, one terminal
\* reply each, every Do call that returns a reply (its parameters or its
\* RPC error) returns the reply to its own request, whatever the
\* interleaving of the callers; any other return value is a connection
\* failure.
C1_OwnReply ==
  peerOK =>
    \A c \in Calls :
      ~cmore[c] =>
        \A i \in 1..Len(results[c]) :
          /\ results[c][i].kind = "reply" =>
               (results[c][i].for = c /\ ~results[c][i].continues)
          /\ results[c][i].kind # "reply" =>
               (results[c][i].kind \in {"closed", "submit"} /\ ConnDown)

\* every caller ran Do and got its own reply, the request of the last
\* caller having gone out first
C1_Witness ==
  /\ peerOK /\ ~ConnDown
  /\ Len(StreamIds(wire)) = NumCalls
  /\ StreamIds(wire)[1] = NumCalls
  /\ \A c \in Calls :
       /\ ~cmore[c]
       /\ Len(results[c]) = 1
       /\ results[c][1].kind = "reply"
       /\ results[c][1].for = c

\* C2: the read loop hands every reply to the entry at the head of the
\* pending queue and removes that head only for a reply with
\* continues=false; so after a continues=true reply was delivered to a call
\* the next delivery goes to the same call.
C2_HeadOfLine ==
  [][/\ (rpc = "route" /\ rpc' = "send" /\ pending # <<>>) =>
          /\ rch' = pending[1]
          /\ pending' = IF rreply.continues THEN pending ELSE Tail(pending)
     /\ (rpc = "send" /\ rpc' = "read") =>
          /\ chans'[rch].buf = Append(chans[rch].buf, rreply)
          /\ lastDeliv.continues => rch = lastDeliv.ch]_vars

\* a streaming call at the head received two replies while another call
\* was queued behind it
C2_Witness ==
  /\ Len(pending) = 2
  /\ cmore[pending[1]]
  /\ lastDeliv = [ch |-> pending[1], continues |-> TRUE]
  /\ Len(chans[pending[1]].buf) + Len(results[pending[1]]) = 2
  /\ Len(StreamIds(wire)) = 2

\* the result before position i ended the stream of call c
StreamEnded(c, i) ==
  /\ i > 1
  /\ \/ results[c][i - 1].kind \in {"eof", "closed"}
     \/ results[c][i - 1].kind = "reply" /\ ~results[c][i - 1].continues

\* C3: successive Next calls on a DoMore handle return the replies of the
\* call in arrival order (the i-th Next returns the i-th reply), and every
\* Next after the terminal reply, and none before it, returns io.EOF.
C3_StreamOrder ==
  \A c \in Calls :
    cmore[c] =>
      \A i \in 1..Len(results[c]) :
        /\ (peerOK /\ results[c][i].kind = "reply") =>
             (results[c][i].for = c /\ results[c][i].seq = i)
        /\ results[c][i].kind = "eof" <=> StreamEnded(c, i)

\* two non-terminal replies, the terminal reply, then end-of-stream
C3_Witness ==
  \E c \in Calls :
    /\ cmore[c] /\ peerOK /\ ~ConnDown
    /\ Len(results[c]) = 4
    /\ \A i \in 1..3 : results[c][i].kind = "reply" /\ results[c][i].seq = i
    /\ results[c][1].continues /\ results[c][2].continues
    /\ ~results[c][3].continues
    /\ results[c][4].kind = "eof"

\* the token stream is a sequence of whole frames: value, zero byte, ...
WellFramed(s) ==
  \A i \in 1..Len(s) :
    IF i % 2 = 1 THEN s[i][1] = "json" ELSE s[i] = NulTok

InPending(c) == \E i \in 1..Len(pending) : pending[i] = c

\* C4: appending the pending entry and writing the request happen in one
\* critical section: a caller between the two holds the mutex, the queued
\* entries are in the order of their requests on the wire, and the wire
\* carries whole frames only.
C4_SubmitOrder ==
  /\ \A c \in Calls : cpc[c] \in {"encode", "flush"} => mutex = c
  /\ IsPrefix(SelectSeq(StreamIds(wire \o wbuf), InPending), pending)
  /\ WellFramed(wire)

\* two requests are on the wire and both entries are queued, the later
\* caller first
C4_Witness ==
  /\ Len(wire) = 4
  /\ Len(pending) = 2
  /\ pending[1] > pending[2]
  /\ StreamIds(wire) = pending

\* this step makes call c return from Do or Next
Returns(c) == Len(results'[c]) = Len(results[c]) + 1

\* what the call returned in this step
Ret(c) == results'[c][Len(results'[c])]

\* this step is call c receiving from its channel
Receives(c) == Returns(c) /\ cpc[c] \in {"wait", "handle"} /\ ~chnil[c]

\* C14: when the reply delivered to a Do call has continues=true, Do closes
\* the connection and returns a protocol-violation error, not the reply.
C14_UnexpectedContinues ==
  [][\A c \in Calls :
       (Receives(c) /\ cpc[c] = "wait" /\ chans[c].buf # <<>>
          /\ Head(chans[c].buf).continues) =>
         /\ connClosed'
         /\ Ret(c).kind = "proto"
         /\ cpc'[c] = "done"]_vars

\* a Do call returned the protocol violation and the connection is closed
C14_Witness ==
  \E c \in Calls :
    /\ ~cmore[c]
    /\ Len(results[c]) = 1
    /\ results[c][1].kind = "proto"
    /\ results[c][1].for = c
    /\ connClosed

\* C15: a reply with a non-empty error makes the call it was delivered to
\* return an Error with that name and payload, and nothing else changes:
\* the connection stays open, no error is stored, the queue and the other
\* calls are untouched; with a peer answering in order the error belongs to
\* the call that returns it and every call still gets its own replies.
C15_ErrorIsPerCall ==
  [][/\ \A c \in Calls :
          (Receives(c) /\ chans[c].buf # <<>>
             /\ Head(chans[c].buf).error # ""
             /\ (cmore[c] \/ ~Head(chans[c].buf).continues)) =>
            /\ Ret(c) = [kind |-> "reply", for |-> Head(chans[c].buf).for,
                         seq |-> Head(chans[c].buf).seq,
                         continues |-> Head(chans[c].buf).continues,
                         err |-> Head(chans[c].buf).error]
            /\ peerOK => Ret(c).for = c
            /\ connClosed' = connClosed
            /\ cerr' = cerr
            /\ pending' = pending
            /\ rpc' = rpc
            /\ \A d \in Calls \ {c} :
                 chans'[d] = chans[d] /\ results'[d] = results[d]
     /\ peerOK' =>
          \A c \in Calls : \A i \in 1..Len(results'[c]) :
            results'[c][i].kind = "reply" => results'[c][i].for = c]_vars

\* one call got the RPC error and the other call got its own successful
\* reply on the same, still open connection
C15_Witness ==
  /\ peerOK /\ ~ConnDown
  /\ results[1] = <<[kind |-> "reply", for |-> 1, seq |-> 1,
                     continues |-> FALSE, err |-> "x.Failed"]>>
  /\ results[2] = <<[kind |-> "reply", for |-> 2, seq |-> 1,
                     continues |-> FALSE, err |-> ""]>>
  /\ wireIn = <<>>

\* C16: when readLoop stops on a read or decoding error (not a local
\* close), the shutdown path stores the error, closes the channel of every
\* pending entry without delivering anything, and empties the queue; a
\* caller blocked on such a channel then returns the stored error.
C16_ReadFailure ==
  [][/\ (rpc = "shutdown" /\ rpc' = "stopped" /\ rerr = "read") =>
          /\ cerr' = "read"
          /\ pending' = <<>>
          /\ \A c \in Calls :
               /\ chans'[c].buf = chans[c].buf
               /\ chans'[c].closed = (chans[c].closed \/ InPending(c))
     /\ \A c \in Calls :
          (rpc = "stopped" /\ rerr = "read" /\ Receives(c)
             /\ chans[c].buf = <<>>) =>
            /\ Ret(c).kind = "closed"
            /\ Ret(c).err = "read"
            /\ cerr = "read"]_vars

\* both calls were pending when the read failed and both returned the
\* stored read error
C16_Witness ==
  /\ rpc = "stopped" /\ rerr = "read" /\ ~connClosed
  /\ \A c \in Calls :
       /\ chans[c].closed
       /\ Len(results[c]) = 1
       /\ results[c][1].kind = "closed"
       /\ results[c][1].err = "read"

\* call c got the write error from writeRequest
WriteFailed(c) ==
  /\ Len(results[c]) = 1
  /\ results[c][1].kind = "submit"
  /\ results[c][1].err = "write"

\* C17: a failed request write becomes the stored error, closes the
\* connection and is returned to the submitting caller, and the entry queued
\* for the request is closed and removed by readLoop's shutdown path: it is
\* not in the queue once readLoop has finished.
C17_WriteFailureDrained ==
  [][\A c \in Calls :
       /\ (cpc[c] = "flush" /\ cpc'[c] = "done") =>
            /\ cerr' = "write"
            /\ connClosed'
            /\ Ret(c).kind = "submit" /\ Ret(c).err = "write"
       /\ (rpc' = "stopped" /\ WriteFailed(c)') => ~InPending(c)']_vars

\* C18: Client.Close aborts the pending calls: a Do or Next blocked on a
\* pending entry returns an error, the stored connection error, once its
\* channel is closed (with a well-behaved peer a channel is closed without
\* a stored write or read error only after Client.Close).
C18_CloseAborts ==
  peerOK =>
    \A c \in Calls : \A i \in 1..Len(results[c]) :
      results[c][i].kind = "closed" => results[c][i].err # "nil"

\* the client has failed: an error is stored or a Do met a protocol
\* violation
Failed ==
  \/ cerr # "nil"
  \/ \E c \in Calls : \E i \in 1..Len(results[c]) :
       results[c][i].kind = "proto"

\* C19: after a connection-fatal failure every call that has not been
\* handed a reply yet, pending or submitted later, returns an error and not
\* a successful result.
C19_PermanentlyFailed ==
  [][\A c \in Calls :
       (Failed /\ Returns(c) /\ ~chnil[c] /\ chans[c].buf = <<>>) =>
         /\ Ret(c).kind \in {"submit", "closed"}
         /\ Ret(c).err # "nil"]_vars

\* this step is a step of the oneway submission
OnewayStep == owpc' # owpc

\* the oneway submission can take its next step
OnewayCanStep == ENABLED (OnewayLock \/ OnewayEncode \/ OnewayFlush \/ OnewayFail)

\* C20: no step of a oneway submission changes the pending queue, a delivery
\* channel or the replies in flight; the step that completes its write puts
\* the oneway request on the wire as one frame and returns nil at once; the
\* submission waits for nothing but the mutex; and with a peer that answers
\* in order every reply a call returns is still the reply to its own
\* request.
C20_OnewayNoEntry ==
  [][/\ OnewayStep =>
          /\ pending' = pending
          /\ chans' = chans
          /\ wireIn' = wireIn
          /\ results' = results
     /\ (OnewayStep /\ wire' # wire) =>
          /\ Frames(wire') = Append(Frames(wire), OnewayTok[2])
          /\ owpc' = "done"
          /\ owres' = "nil"
     /\ (owpc # "done" /\ (owpc = "start" => mutex = 0)) => OnewayCanStep
     /\ peerOK' =>
          \A c \in Calls : \A i \in 1..Len(results'[c]) :
            results'[c][i].kind = "reply" => results'[c][i].for = c]_vars

\* the oneway request went out between the requests of two calls, it
\* returned nil, and both calls returned their own replies
C20_Witness ==
  /\ peerOK /\ ~ConnDown
  /\ owres = "nil"
  /\ pending = <<>>
  /\ Len(StreamIds(wire)) = NumCalls + 1
  /\ StreamIds(wire)[1] \in Calls
  /\ StreamIds(wire)[2] = OnewayTok[2]
  /\ \A c \in Calls :
       /\ Len(results[c]) >= 1
       /\ results[c][1].kind = "reply"
       /\ results[c][1].for = c

\* the read loop is at ch <- reply and the channel holds ChanCap replies
Stalled == rpc = "send" /\ rch # 0 /\ Len(chans[rch].buf) = ChanCap

\* C29: the channel of a streaming call whose caller has stopped receiving
\* can fill up to its capacity of 32; the read loop then stays at its send
\* to that channel, and while it does no other pending call is delivered
\* or returns a reply.
C29_StalledLoop ==
  [][Stalled =>
       /\ rpc' = "send" /\ rch' = rch /\ rreply' = rreply
       /\ \A c \in Calls :
            (c # rch /\ InPending(c)) =>
              (chans'[c] = chans[c] /\ results'[c] = results[c])]_vars

\* the read loop is stalled on the stream of one call while the other call
\* is pending, the peer has sent its reply, and its caller waits
C29_Witness ==
  /\ Stalled
  /\ cmore[rch]
  /\ \E c \in Calls :
       /\ c # rch /\ InPending(c)
       /\ cpc[c] = "wait"
       /\ chans[c].buf = <<>>
       /\ \E i \in 1..Len(wireIn) : wireIn[i].for = c

(* ======================== Properties: codec ============================ *)
\* this step is a readMessage call returning
ReadReturns == Len(rdres') = Len(rdres) + 1

\* what it returned
ReadRet == rdres'[Len(rdres')]

\* the zero bytes in a sequence of bytes
Nuls(bs) == SelectSeq(bs, LAMBDA t : t = NulTok)

\* C21: each writeMessage appends one frame to the stream, the encoded
\* value with exactly one zero byte behind it, and as long as only
\* writeMessage has written to the connection the i-th readMessage on the
\* other end returns the i-th value written, without an error.
C21_RoundTrip ==
  [][/\ (csent' # csent) =>
          \E v \in Values, ws \in {<<>>, <<NlTok>>} :
            /\ csent' = Append(csent, v)
            /\ cnet' = cnet \o <<JsonTok(v)>> \o ws \o <<NulTok>>
     /\ craw' = 0 =>
          \A i \in 1..Len(rdres') :
            i <= Len(csent') => rdres'[i] = ReadResult("nil", csent'[i])]_vars

\* C22 as stated: a readMessage call that returns with the stream ended and
\* no zero byte left behind what it scanned, or that did not scan a value
\* directly followed by the zero byte, returns an error and has written
\* nothing to v.
C22_ErrorAndNoValue ==
  [][ReadReturns =>
       /\ (cclosed /\ cnet = <<>> /\ Nuls(dbuf') = <<>>) =>
            (ReadRet.err # "nil" /\ ReadRet.v = "unset")
       /\ ~(rdpc = "nul" /\ dbuf # <<>> /\ Head(dbuf) = NulTok) =>
            (ReadRet.err # "nil" /\ ReadRet.v = "unset")]_vars

\* C22: a readMessage call that returns with the stream ended and no zero
\* byte left behind what it scanned, or that did not scan a value directly
\* followed by the zero byte, returns an error; v is unwritten when no
\* complete value was scanned, holds the decoded value when only the
\* delimiter is missing or wrong, and may be partly written when the value
\* has the wrong type.
C22_FramingError ==
  [][ReadReturns =>
       /\ (cclosed /\ cnet = <<>> /\ Nuls(dbuf') = <<>>) => ReadRet.err # "nil"
       /\ ~(rdpc = "nul" /\ dbuf # <<>> /\ Head(dbuf) = NulTok) =>
            ReadRet.err # "nil"
       /\ ReadRet.err = "nil" => ReadRet.v \in Values
       /\ (ReadRet.err # "nil" /\ rdpc = "decode") =>
            ReadRet.v = (IF ReadRet.err = "type" THEN "partial" ELSE "unset")
       /\ (ReadRet.err # "nil" /\ rdpc = "nul") => ReadRet.v \in Values]_vars

\* the stream ended behind a complete value without a delimiter, and behind
\* bytes that are no value: the first call returned an error with the value
\* in v, another returned an error with v unwritten
C22_Witness ==
  /\ cclosed /\ cnet = <<>> /\ csent = <<>>
  /\ \E i, j \in 1..Len(rdres) :
       /\ rdres[i].err \in {"EOF", "nonul"} /\ rdres[i].v \in Values
       /\ rdres[j].err \in {"syntax", "unexpectedEOF"} /\ rdres[j].v = "unset"

(* ======================== Properties: parser =========================== *)
\* Read has returned for a whole text that starts with the interface
\* declaration
ReadWhole == pout # <<>> /\ pin.hdr = "ok" /\ pin.drop = 0

\* C23: Read of a valid interface definition returns, without an error, the
\* Interface with the declared name and exactly the declared types, methods
\* and errors with their field types, whatever the white space and the
\* comments; a second Read of the same text returns the same.
C23_ReadsDeclared ==
  (ReadWhole /\ GrammarMembers(pin.members)) =>
    /\ pout[1] = ReadRes(<<Declared(pin.members, Len(pin.members))>>, "nil")
    /\ pout2 # <<>> => pout2 = pout

\* a type with two fields, a method and an error were read twice from a
\* text with comments
C23_Witness ==
  /\ ReadWhole /\ GrammarMembers(pin.members)
  /\ pin.style = "commented"
  /\ Len(pin.members) = 3
  /\ Len(pin.members[1].in) = 2
  /\ Len(pin.members[2].in) = 1
  /\ pout2 # <<>>
  /\ DOMAIN pout[1].iface[1].types = {NameT}
  /\ DOMAIN pout[1].iface[1].methods = {NameM}
  /\ DOMAIN pout[1].iface[1].errors = {NameE}

\* the lists of the members are uniform and what Read accepts
Uniform(m) ==
  /\ GrammarName(m.name)
  /\ ValidTypes(m.in)
  /\ IF m.kw = KwType THEN AllBare(m.in) \/ AllTyped(m.in)
     ELSE AllTyped(m.in) /\ AllTyped(m.out)

\* C24: a type declared with the list () is the empty struct; with any
\* other list in one syntax Read succeeds and the token behind the first
\* identifier decides: after "," or ")" the type is the enum of the
\* identifiers in source order, after ":" it is the struct of the
\* name: type pairs.
C24_ListKind ==
  (ReadWhole /\ \A i \in 1..Len(pin.members) : Uniform(pin.members[i])) =>
    /\ pout[1].err = "nil"
    /\ \A i \in 1..Len(pin.members) :
         LET m == pin.members[i] IN
           m.kw = KwType =>
             LET typ == pout[1].iface[1].types[m.name] IN
               IF m.in = <<>> THEN typ = StructOf(EmptyMap)
               ELSE IF m.in[1].typ = <<>>
               THEN typ = EnumOf([j \in 1..Len(m.in) |-> m.in[j].name])
               ELSE typ = StructOf(DeclaredStruct(m.in))

\* a list of one identifier, closed by ")", was read as an enum
C24_Witness ==
  /\ ReadWhole
  /\ Len(pin.members) = 1
  /\ pin.members[1].kw = KwType
  /\ pin.members[1].in = <<Elem(FieldA, <<>>)>>
  /\ pout[1].err = "nil"
  /\ pout[1].iface[1].types[NameT].kind = "enum"

\* C25: a list whose first element fixes it as an enum or as a struct and
\* which has a later element in the other syntax makes Read fail with a
\* syntax error.
C25_NoSwitch ==
  (ReadWhole /\ Len(pin.members) > 0 /\ MixedList(pin.members[1].in)) =>
    pout[1] = ReadRes(<<>>, "syntax")

\* an enum list with a name: type pair as its second element was refused
C25_Witness ==
  /\ ReadWhole
  /\ Len(pin.members) = 1
  /\ Len(pin.members[1].in) = 2
  /\ pin.members[1].in[1].typ = <<>>
  /\ pin.members[1].in[2].typ # <<>>
  /\ pout[1].err = "syntax"

\* C26: when the text of a valid definition ends between two members, or
\* behind the last, Read succeeds with the members complete so far; when it
\* ends inside a member Read fails.
C26_EndOfInput ==
  (pout # <<>> /\ pin.hdr = "ok" /\ GrammarMembers(pin.members)) =>
    IF AtMemberBoundary(pin)
    THEN pout[1] =
           ReadRes(<<Declared(pin.members, CompleteMembers(pin))>>, "nil")
    ELSE pout[1].err # "nil"

\* a text of two members was cut behind the first, inside the white space
\* or the comment before the second, and Read returned the first
C26_Witness ==
  /\ pout # <<>> /\ pin.hdr = "ok" /\ pin.drop > 0
  /\ Len(pin.members) = 2
  /\ AtMemberBoundary(pin)
  /\ CompleteMembers(pin) = 1
  /\ Len(psrc) > Len(TextUpTo(pin, 1))
  /\ pout[1].err = "nil"
  /\ DOMAIN pout[1].iface[1].types = {NameT}

\* C27: whenever Read returns an error it returns a nil Interface, also
\* when members were parsed before the malformed token.
C27_NoPartial ==
  (pout # <<>> /\ pout[1].err # "nil") => pout[1].iface = <<>>

\* a well-formed type was followed by a method with an enum for its input:
\* Read returned the error and nil
C27_Witness ==
  /\ ReadWhole
  /\ Len(pin.members) >= 2
  /\ GrammarMember(pin.members[1])
  /\ pin.members[2].kw = KwMethod
  /\ ~AllTyped(pin.members[2].in)
  /\ pout[1] = ReadRes(<<>>, "syntax")

\* the field names and enum variants in a type follow the grammar
RECURSIVE FieldNamesOK(_)
FieldNamesOK(ty) ==
  /\ \A i \in 1..Len(ty.enum) : GrammarFieldName(ty.enum[i])
  /\ \A k \in DOMAIN ty.struct :
       GrammarFieldName(k) /\ FieldNamesOK(ty.struct[k])
  /\ \A i \in 1..Len(ty.inner) : FieldNamesOK(ty.inner[i])

\* C28: in every Interface Read returns the type, method and error names
\* are capitalized identifiers and every struct field name and enum
\* variant begins with a lowercase letter and goes on with letters, digits
\* or underscores.
C28_Names ==
  (pout # <<>> /\ pout[1].err = "nil") =>
    LET iface == pout[1].iface[1] IN
      /\ \A n \in DOMAIN iface.types :
           GrammarName(n) /\ FieldNamesOK(iface.types[n])
      /\ \A n \in DOMAIN iface.methods :
           /\ GrammarName(n)
           /\ FieldNamesOK(StructOf(iface.methods[n].in))
           /\ FieldNamesOK(StructOf(iface.methods[n].out))
      /\ \A n \in DOMAIN iface.errors :
           GrammarName(n) /\ FieldNamesOK(StructOf(iface.errors[n]))

(* ======================= Properties: Server ============================ *)
\* the replies on the wire that answer call i, in order
RepliesFor(i) == SelectSeq(sOut, LAMBDA m : m.id = i)

\* the loop went on to read the next request after call i
Disposed(i) == i < Len(reqs) \/ (i = Len(reqs) /\ spc = "read")

\* a terminal reply for the current call is on the wire
TerminalSent ==
  \E j \in 1..Len(sOut) : sOut[j].id = CurReq.id /\ ~sOut[j].continues

\* this step is the handler returning a value of the given kind
HandlerReturns(kind) ==
  spc = "handle" /\ spc' # "handle" /\ hret'.kind = kind

\* this step is the handler invoking the given reply operation
HandlerCalls(op) ==
  /\ spc = "handle"
  /\ Len(opLog') = Len(opLog) + 1
  /\ opLog'[Len(opLog')].op = op

\* C5: for a request with more=false and oneway=false at most one reply is
\* ever written, and once the loop goes on to read the next request exactly
\* one reply, a terminal one, has been written for it.
C5_ExactlyOneReply ==
  \A i \in 1..Len(reqs) :
    (~reqs[i].more /\ ~reqs[i].oneway) =>
      /\ Len(RepliesFor(i)) <= 1
      /\ Disposed(i) =>
           (Len(RepliesFor(i)) = 1 /\ ~RepliesFor(i)[1].continues)

\* C6: for a request with more=true and oneway=false the replies written
\* for the call are continues=true replies followed by one terminal reply:
\* a terminal reply is the last reply of its call, nothing is written after it.
C6_TerminalIsLast ==
  \A i \in 1..Len(reqs) :
    (reqs[i].more /\ ~reqs[i].oneway) =>
      \A j \in 1..Len(RepliesFor(i)) :
        ~RepliesFor(i)[j].continues => j = Len(RepliesFor(i))

\* C7: nothing is ever written to the wire for a oneway request.
C7_OnewaySilent ==
  \A i \in 1..Len(reqs) : reqs[i].oneway => RepliesFor(i) = <<>>

\* a oneway call on which the handler invoked Reply and CloseWithReply
\* (twice) and then returned a ServerError
C7_Witness ==
  /\ reqs # <<>>
  /\ CurReq.oneway /\ CurReq.more
  /\ spc = "read"
  /\ hret.kind = "verr"
  /\ Len(opLog) = 3
  /\ opLog[1].op = "Reply"
  /\ opLog[2].op = "CloseWithReply"
  /\ opLog[3].op = "CloseWithReply"

\* C8: after the handler returns without error the loop terminates with
\* "CloseWithReply not called" exactly when the request was not oneway and
\* no terminal reply was sent for the call; otherwise it reads on.
C8_MustReply ==
  [][HandlerReturns("nil") =>
       IF ~CurReq.oneway /\ ~TerminalSent
       THEN spc' = "closed" /\ sRet' = "notclosed"
       ELSE spc' = "read" /\ sRet' = sRet]_vars

\* the reply C9 expects for the ServerError the handler returned
ExpectedErrorReply ==
  [id |-> CurReq.id, continues |-> FALSE, error |-> hret'.name,
   params |-> hret'.params]

\* C9 as stated: a ServerError returned for a non-oneway request with no
\* terminal reply sent makes the loop write exactly one terminal error
\* reply, mark the call done and go on to the next request.
C9_ErrorReplyAlways ==
  [][(HandlerReturns("verr") /\ ~CurReq.oneway /\ ~TerminalSent) =>
       /\ sOut' = Append(sOut, ExpectedErrorReply)
       /\ done'
       /\ spc' = "read"]_vars

\* C9 amended: the loop makes one attempt to write the terminal error reply.
\* If the call is not yet marked done and the write succeeds, exactly that
\* reply is written, the call is marked done and the loop reads on; if the
\* write fails, or the call was already marked done by a CloseWithReply
\* whose write failed, nothing is written and the loop terminates with a
\* writing error.
C9_ErrorReply ==
  [][(HandlerReturns("verr") /\ ~CurReq.oneway /\ ~TerminalSent) =>
       IF ~done /\ Encodable(hret'.params) /\ ~sbroken'
       THEN /\ sOut' = Append(sOut, ExpectedErrorReply)
            /\ done'
            /\ spc' = "read"
            /\ sRet' = sRet
       ELSE /\ sOut' = sOut
            /\ spc' = "closed"
            /\ sRet' = "writing"]_vars

\* the error reply of call 1 is on the wire and call 2 is being served
C9_Witness ==
  /\ Len(reqs) = 2
  /\ spc = "handle"
  /\ ~reqs[1].oneway
  /\ sOut = <<[id |-> 1, continues |-> FALSE, error |-> "x.Err",
               params |-> "p1"]>>

\* C10: Reply on a request without more returns an error to the handler,
\* writes nothing and leaves call.done as it was.
C10_ReplyWithoutMore ==
  [][(HandlerCalls("Reply") /\ ~CurReq.more) =>
       /\ opLog'[Len(opLog')].err = "nomore"
       /\ sOut' = sOut
       /\ done' = done]_vars

\* Reply was refused on a more=false call, before and after CloseWithReply
C10_Witness ==
  /\ spc = "handle"
  /\ ~CurReq.more /\ ~CurReq.oneway
  /\ Len(opLog) = 3
  /\ opLog[1] = [op |-> "Reply", err |-> "nomore"]
  /\ opLog[2] = [op |-> "CloseWithReply", err |-> "nil"]
  /\ opLog[3] = [op |-> "Reply", err |-> "nomore"]
  /\ done

\* no call has more than one terminal reply on the wire
AtMostOneTerminal ==
  \A j, k \in 1..Len(sOut) :
    (sOut[j].id = sOut[k].id /\ ~sOut[j].continues /\ ~sOut[k].continues)
      => j = k

\* C11: CloseWithReply on a call already marked done returns an error and
\* writes nothing, so at most one terminal reply per call reaches the wire.
C11_CloseTwice ==
  [][/\ (HandlerCalls("CloseWithReply") /\ done) =>
          /\ opLog'[Len(opLog')].err = "twice"
          /\ sOut' = sOut
          /\ done' = done
     /\ AtMostOneTerminal']_vars

\* the second CloseWithReply of a call was refused after the first was
\* written
C11_Witness ==
  /\ spc = "handle"
  /\ ~CurReq.oneway
  /\ Len(opLog) = 2
  /\ opLog[1] = [op |-> "CloseWithReply", err |-> "nil"]
  /\ opLog[2] = [op |-> "CloseWithReply", err |-> "twice"]
  /\ Len(RepliesFor(CurReq.id)) = 1

\* C12: a request with upgrade=true ends the loop with an error at once:
\* the handler is not invoked, no reply is written for the request and no
\* further request is read.
C12_UpgradeFails ==
  \A i \in 1..Len(reqs) :
    reqs[i].upgrade =>
      /\ i = Len(reqs)
      /\ spc = "closed"
      /\ sRet = "upgrade"
      /\ opLog = <<>>
      /\ hret = NoRet
      /\ RepliesFor(i) = <<>>

\* the second request asked for an upgrade after the first was answered
C12_Witness ==
  /\ Len(reqs) = 2
  /\ reqs[2].upgrade
  /\ spc = "closed"
  /\ Len(RepliesFor(1)) = 1

\* C13: the loop reads the next request only after the handler of the
\* current one has returned and the loop has dealt with its result, the
\* handler is invoked for the newest request only, and on the wire every
\* reply to a request precedes every reply to a later request.
C13_Sequential ==
  [][/\ Len(reqs') > Len(reqs) =>
          /\ spc = "read"
          /\ reqs # <<>> => hret.kind \in {"nil", "verr"}
     /\ \A j \in 1..Len(sOut') :
          /\ j > Len(sOut) => sOut'[j].id = Len(reqs)
          /\ j > 1 => sOut'[j - 1].id <= sOut'[j].id]_vars

\* two streaming requests were answered one after the other
C13_Witness ==
  /\ Len(reqs) = 2
  /\ spc = "read"
  /\ Len(RepliesFor(1)) = 2
  /\ Len(RepliesFor(2)) = 2
  /\ sOut[2].id = 1 /\ sOut[3].id = 2

\* C30: a failed read of a request ends serveConn, and once a reply could
\* not be written to the connection no further request is read from it.
C30_FailureEnds ==
  [][/\ sbroken => reqs' = reqs
     /\ (sRet = "none" /\ sRet' \in {"nil", "reading"}) => spc' = "closed"]_vars

\* C31: when the handler returns a ServerError after a terminal reply of
\* the call has been written by CloseWithReply, the error reply of the loop
\* is refused as a second terminal reply: nothing is written and serveConn
\* returns a writing error.
C31_NoSecondTerminal ==
  [][(HandlerReturns("verr") /\ TerminalSent) =>
       /\ sOut' = sOut
       /\ spc' = "closed"
       /\ sRet' = "writing"]_vars

\* CloseWithReply wrote the terminal reply, the handler returned a
\* ServerError and the loop ended with one reply on the wire
C31_Witness ==
  /\ Len(reqs) = 1
  /\ spc = "closed"
  /\ sRet = "writing"
  /\ hret.kind = "verr"
  /\ opLog = <<[op |-> "CloseWithReply", err |-> "nil"]>>
  /\ Len(sOut) = 1 /\ ~sOut[1].continues /\ sOut[1].error = ""

\* C38: when the handler returns an error that is not a ServerError,
\* serveConn returns a handling error and writes no reply, also when no
\* terminal reply of the call has been written.
C38_OtherErrorEnds ==
  [][HandlerReturns("other") =>
       /\ sOut' = sOut
       /\ spc' = "closed"
       /\ sRet' = "handling"]_vars

\* the handler of a call that expects a reply returned another error
\* before any reply: the loop ended with nothing on the wire
C38_Witness ==
  /\ Len(reqs) = 1
  /\ ~CurReq.oneway
  /\ spc = "closed"
  /\ sRet = "handling"
  /\ hret.kind = "other"
  /\ opLog = <<>>
  /\ sOut = <<>>

\* C39: serveConn returns nil only when readMessage meets the end of the
\* stream at a frame boundary, that is, with the stream closed, nothing
\* left to read and no value of a further request scanned by the call; a
\* call that returns after the stream has ended inside a request makes
\* serveConn return a reading error.
C39_EndAtBoundary ==
  [][ReadReturns =>
       /\ ServeReadResult(ReadRet.err) = "nil" =>
            (cclosed /\ cnet = <<>> /\ rdpc = "decode" /\ ReadRet.v = "unset")
       /\ (cclosed /\ cnet = <<>> /\ (rdpc = "nul" \/ SkipSpace(dbuf) # <<>>)) =>
            ServeReadResult(ReadRet.err) = "reading"]_vars

\* call c makes its submission step (writeRequest takes the mutex)
Submits(c) == cpc[c] = "start" /\ cpc'[c] # "start"

\* C32: a reply that the read loop routes while the pending queue is empty
\* finds no channel; the loop then stops with the error "received reply
\* without request", its deferred function stores that error, and from then
\* on the error stays stored and every submission returns it.
C32_ReplyWithoutRequest ==
  [][/\ (rpc = "route" /\ rpc' # rpc /\ pending = <<>>) =>
          (rpc' = "send" /\ rch' = 0)
     /\ (rpc = "send" /\ rpc' # rpc /\ rch = 0) =>
          (rpc' = "shutdown" /\ rerr' = "noreq" /\ chans' = chans)
     /\ (rpc = "shutdown" /\ rpc' # rpc /\ rerr = "noreq") =>
          (rpc' = "stopped" /\ cerr' = "noreq")
     /\ (rpc = "stopped" /\ rerr = "noreq") =>
          /\ rpc' = "stopped" /\ cerr' = "noreq"
          /\ \A c \in Calls :
               Submits(c) =>
                 /\ Returns(c)
                 /\ Ret(c) = Result("submit", NoReply, "noreq")
                 /\ cpc'[c] = "done"]_vars

\* an unsolicited reply stopped the loop and a submission made afterwards
\* was refused with the stored error
C32_Witness ==
  /\ rpc = "stopped"
  /\ rerr = "noreq"
  /\ rreply.for = 0
  /\ \E c \in Calls :
       /\ cpc[c] = "done"
       /\ results[c] = <<Result("submit", NoReply, "noreq")>>

\* C35: a submission made while an error is stored returns that error at
\* once: the call gets no pending entry and nothing is written.
C35_StoredErrorRefuses ==
  [][\A c \in Calls :
       (Submits(c) /\ cerr # "nil") =>
         /\ Returns(c)
         /\ Ret(c) = Result("submit", NoReply, cerr)
         /\ cpc'[c] = "done"
         /\ pending' = pending
         /\ wbuf' = wbuf
         /\ wire' = wire
         /\ mutex' = mutex]_vars

\* the read loop stored a read error and a later submission was refused
\* with it: the call is not queued and its request is not on the wire
C35_Witness ==
  /\ cerr = "read"
  /\ \E c \in Calls :
       /\ results[c] = <<Result("submit", NoReply, "read")>>
       /\ ~InPending(c)
       /\ \A i \in 1..Len(wire) : wire[i] # JsonTok(c)

\* no channel occurs twice in the queue
Distinct(q) == \A i, j \in 1..Len(q) : i # j => q[i] # q[j]

\* C37: a channel is closed at most once and nothing is sent on it after
\* the close: only the deferred function of the read loop closes channels,
\* it runs once, over a queue that holds every channel once and no closed
\* one; a closed channel stays closed and gets no further reply, and the
\* loop sends nothing once it has stopped.
C37_ClosedOnce ==
  [][/\ \A c \in Calls :
          chans[c].closed =>
            /\ chans'[c].closed
            /\ Len(chans'[c].buf) <= Len(chans[c].buf)
     /\ (\E c \in Calls : chans'[c].closed /\ ~chans[c].closed) =>
          /\ rpc = "shutdown" /\ rpc' = "stopped"
          /\ Distinct(pending)
          /\ \A i \in 1..Len(pending) : ~chans[pending[i]].closed
          /\ pending' = <<>>
     /\ rpc = "stopped" =>
          /\ rpc' = "stopped"
          /\ \A c \in Calls : Len(chans'[c].buf) <= Len(chans[c].buf)]_vars

\* a write failure and Close came between submissions and replies: the loop
\* delivered a reply, then stopped and closed the channels of both calls
C37_Witness ==
  /\ rpc = "stopped"
  /\ connClosed
  /\ cerr = "write"
  /\ lastDeliv.ch \in Calls
  /\ \A c \in Calls : chans[c].closed

\* a non-empty list of bare identifiers
EnumList(list) == list # <<>> /\ AllBare(list)

\* C40: a method or error member whose input list, output list or payload
\* is a non-empty list of bare identifiers makes Read fail; the list () in
\* these places is read as the empty struct; a type member is read with a
\* struct list and with an enum list alike.
C40_StructsOnly ==
  ReadWhole =>
    /\ (\E i \in 1..Len(pin.members) :
          /\ pin.members[i].kw \in {KwMethod, KwError}
          /\ EnumList(pin.members[i].in) \/ EnumList(pin.members[i].out)) =>
         pout[1] = ReadRes(<<>>, "syntax")
    /\ GrammarMembers(pin.members) =>
         /\ pout[1].err = "nil"
         /\ \A i \in 1..Len(pin.members) :
              LET m == pin.members[i]
                  iface == pout[1].iface[1]
              IN /\ (m.kw = KwMethod /\ m.in = <<>>) =>
                      iface.methods[m.name].in = EmptyMap
                 /\ (m.kw = KwMethod /\ m.out = <<>>) =>
                      iface.methods[m.name].out = EmptyMap
                 /\ (m.kw = KwError /\ m.in = <<>>) =>
                      iface.errors[m.name] = EmptyMap
                 /\ m.kw = KwType =>
                      iface.types[m.name].kind =
                        (IF EnumList(m.in) THEN "enum" ELSE "struct")

\* an error declared with an enum for its payload was refused
C40_Witness ==
  /\ ReadWhole
  /\ Len(pin.members) = 1
  /\ pin.members[1].kw = KwError
  /\ pin.members[1].in = <<Elem(FieldA, <<>>)>>
  /\ pout[1] = ReadRes(<<>>, "syntax")

\* an enum type, a method with () for input and output and an error with
\* () for its payload were read
C40_Accepted ==
  /\ ReadWhole
  /\ Len(pin.members) = 3
  /\ EnumList(pin.members[1].in)
  /\ pin.members[2].in = <<>> /\ pin.members[2].out = <<>>
  /\ pin.members[3].in = <<>>
  /\ pout[1].err = "nil"

\* Read has returned for a text whose only member declares a type with one
\* field, the type of the field written as a type expression
ReadExpr ==
  /\ ReadWhole
  /\ Len(pin.members) = 1
  /\ Len(pin.members[1].in) = 1
  /\ pin.members[1].in[1].typ # <<>>
  /\ pin.members[1].in[1].typ[1].kind = "expr"

TheExpr == pin.members[1].in[1].typ[1]

\* C33: a type expression is an optional "?" and then a scalar keyword,
\* "[]" and a type expression, "[string]" and a type expression, a
\* capitalized identifier (kept as a name) or a list in parentheses; the
\* "?" makes the outermost type nullable and nothing inside it; with any
\* other token in the place of a type Read fails with a syntax error.
C33_TypeExpression ==
  ReadExpr =>
    LET r == ExprType(TheExpr.marks, TheExpr.atom) IN
      IF r = <<>> THEN pout[1] = ReadRes(<<>>, "syntax")
      ELSE /\ pout[1].err = "nil"
           /\ pout[1].iface[1].types[NameT] = StructOf(Put(EmptyMap, FieldA, r[1]))
           /\ TheExpr.marks # <<>> /\ Head(TheExpr.marks) = Question =>
                /\ r[1].nullable
                /\ \A i \in 1..Len(r[1].inner) :
                     r[1].inner[i].nullable =
                       (Len(TheExpr.marks) > 2 /\ TheExpr.marks[3] = Question)

\* "?[]T" was read as a nullable array of the name T, the name not nullable
C33_Witness ==
  /\ ReadExpr
  /\ TheExpr.marks = <<Question, ArrayTok>>
  /\ pout[1].err = "nil"
  /\ pout[1].iface[1].types[NameT].struct[FieldA] =
       Nullable(ArrayOf(NamedType(NameT)))

\* "[string]" in front of a lowercase identifier was refused
C33_Refused ==
  /\ ReadExpr
  /\ TheExpr.marks = <<MapTok>>
  /\ TheExpr.bad = NameLower
  /\ pout[1] = ReadRes(<<>>, "syntax")

\* C36: on a connection that does not fail, with a peer that ends the
\* answer to every request in request order and streaming callers that keep
\* calling Next, every submitted Do returns, every stream reaches its end,
\* and the pending queue becomes empty again whenever it has an entry.
C36_EveryCallReturns ==
  /\ \A c \in Calls :
       (cpc[c] \notin {"start", "done"} /\ ~cmore[c]) ~> (cpc[c] = "done")
  /\ \A c \in Calls : (cpc[c] = "handle") ~> chnil[c]
  /\ (pending # <<>>) ~> (pending = <<>>)

\* a Do and a stream of two replies and its end were answered: Do has
\* returned its reply, Next has come to the end of the stream, and the
\* queue is empty
C36_Witness ==
  /\ pending = <<>>
  /\ \E c, s \in Calls :
       /\ ~cmore[c] /\ cpc[c] = "done"
       /\ Len(results[c]) = 1 /\ results[c][1].kind = "reply"
       /\ cmore[s] /\ chnil[s]
       /\ Len(results[s]) = MaxStream + 1

\* C34: every request sent on a connection is answered, unless Serve has
\* returned before it accepted the connection or the handler of that same
\* connection blocks; what the handlers of the other connections do, and
\* whether they ever return, plays no part.
C34_IndependentLoops ==
  \A j \in Conns : \A n \in 1..MaxConnReqs :
    (nsent[j] >= n) ~>
      \/ nansw[j] >= n
      \/ connpc[j] = "blocked"
      \/ connpc[j] = "none" /\ lpc = "returned"

\* the handler of the first connection blocked on its first request, and
\* every request of the second connection has been answered
C34_Witness ==
  /\ connpc[1] = "blocked"
  /\ nansw[1] = 0
  /\ connpc[2] \in {"read", "closed"}
  /\ nansw[2] = MaxConnReqs
====
